---- MODULE Spec2Model ----
(***************************************************************************)
(* A model of the Monkey interpreter (Joetib/monkey): the tree-walking     *)
(* evaluator of src/evaluator/evaluator.go over the environment graph of   *)
(* the object package, driven by the top-level statement loop of           *)
(* evalProgram.  Go pointers are modelled as identifiers (env ids, store   *)
(* ids, object ids); a Go panic is the value PANIC, which unwinds every    *)
(* caller; the Go nil interface value is NIL.                              *)
(***************************************************************************)
EXTENDS Integers, Sequences, FiniteSets, TLC

(***************************************************************************)
(* Bounds of the model.                                                    *)
(***************************************************************************)
\* Width in bits of the model's stand-in for int64 (two's complement, wrapping).
IntBits == 6
\* Longest top-level statement sequence drawn from a statement alphabet.
MaxStmts == 3
\* Loop iterations plus function applications one top-level statement may use
\* before the host is taken to terminate the run.
MaxFuel == 16
\* Deepest nesting of if-blocks around a return, and of recursive calls.
MaxDepth == 2
\* Largest limit of the counting loops of the programs.
MaxLoop == 3
\* Most pairs of a hash literal.
MaxPairs == 3

Pow2(n) == IF n = 0 THEN 1 ELSE LET half[k \in 0..n] == IF k = 0 THEN 1 ELSE 2 * half[k - 1] IN half[n]
MaxInt == Pow2(IntBits - 1) - 1
MinInt == -Pow2(IntBits - 1)

\* int64 arithmetic wraps (Go's + - * on int64), here at IntBits bits.
wrap(x) == ((x - MinInt) % Pow2(IntBits)) + MinInt

(***************************************************************************)
(* Runtime values (src/object/object.go).  Objects that the evaluator      *)
(* compares by pointer carry the identifier 'id' of their allocation.      *)
(***************************************************************************)
Integer(n) == [t |-> "INTEGER", i |-> n]
\* A float64 as the rational num/den in lowest terms with den > 0; den = 0
\* holds the IEEE specials: num = 1 is +Inf, num = -1 is -Inf, num = 0 is NaN.
FloatRaw(n, d) == [t |-> "FLOAT", num |-> n, den |-> d]
TRUE_OBJ == [t |-> "BOOLEAN", b |-> TRUE]
FALSE_OBJ == [t |-> "BOOLEAN", b |-> FALSE]
NULL == [t |-> "NULL"]
\* The Go nil interface value: what Eval returns for a let, an import, an
\* empty block.
NIL == [t |-> "NIL"]
\* A Go run-time panic (failed type assertion, nil dereference, index out of
\* range): it unwinds the whole evaluation.
PANIC(m) == [t |-> "PANIC", msg |-> m]
\* The host terminated a run that used up MaxFuel.
TIMEOUT == [t |-> "TIMEOUT"]
String(s, id) == [t |-> "STRING", s |-> s, id |-> id]
ReturnValue(v, id) == [t |-> "RETURN_VALUE", value |-> v, id |-> id]
Function(params, body, env, id) == [t |-> "FUNCTION", params |-> params, body |-> body, env |-> env, id |-> id]
Builtin(name) == [t |-> "BUILTIN", name |-> name]
Array(elems, id) == [t |-> "ARRAY", elems |-> elems, id |-> id]
Class(name, env, id) == [t |-> "CLASS", name |-> name, env |-> env, id |-> id]
ClassInstance(name, env, id) == [t |-> "CLASS_INSTANCE", name |-> name, env |-> env, id |-> id]
\* The Go map Pairs as a function from hash keys to [key, value] pairs.
Hash(pairs, id) == [t |-> "HASH", pairs |-> pairs, id |-> id]
\* object.Module: the environment the imported file was evaluated in.
Module(name, env, id) == [t |-> "MODULE", name |-> name, env |-> env, id |-> id]
newError(m) == [t |-> "ERROR", msg |-> m]

nativeBoolToBooleanObject(b) == IF b THEN TRUE_OBJ ELSE FALSE_OBJ

\* obj.Type(); on the nil interface the call panics, which callers model
\* by testing isNil first.
Type(v) == v.t
isNil(v) == v.t = "NIL"
isError(v) == v.t = "ERROR"
isAbort(v) == v.t \in {"PANIC", "TIMEOUT"}

\* Go's %T of a value, as the error messages print it.
GoType(v) ==
  CASE v.t = "INTEGER" -> "*object.Integer"
    [] v.t = "FLOAT" -> "*object.Float"
    [] v.t = "BOOLEAN" -> "*object.Boolean"
    [] v.t = "NULL" -> "*object.Null"
    [] v.t = "STRING" -> "*object.String"
    [] v.t = "RETURN_VALUE" -> "*object.ReturnValue"
    [] v.t = "FUNCTION" -> "*object.Function"
    [] v.t = "BUILTIN" -> "*object.Builtin"
    [] v.t = "ARRAY" -> "*object.Array"
    [] v.t = "HASH" -> "*object.Hash"
    [] v.t = "CLASS" -> "*object.Class"
    [] v.t = "CLASS_INSTANCE" -> "*object.ClassInstance"
    [] v.t = "MODULE" -> "*object.Module"
    [] v.t = "ERROR" -> "*object.Error"
    [] OTHER -> "<nil>"

(***************************************************************************)
(* float64 arithmetic on the rational representation.                      *)
(***************************************************************************)
Abs(x) == IF x < 0 THEN -x ELSE x
RECURSIVE Gcd(_, _)
Gcd(a, b) == IF b = 0 THEN a ELSE Gcd(b, a % b)
Sign(x) == IF x > 0 THEN 1 ELSE IF x < 0 THEN -1 ELSE 0

Float(n, d) ==
  IF d = 0 THEN FloatRaw(Sign(n), 0)
  ELSE LET g == Gcd(Abs(n), Abs(d))
           s == IF d < 0 THEN -1 ELSE 1
       IN FloatRaw((s * n) \div g, (s * d) \div g)

isNaN(f) == f.den = 0 /\ f.num = 0
isInf(f) == f.den = 0 /\ f.num # 0

\* float64(int64)
toFloat(n) == FloatRaw(n, 1)

floatAdd(a, b) ==
  IF isNaN(a) \/ isNaN(b) THEN FloatRaw(0, 0)
  ELSE IF isInf(a) /\ isInf(b) THEN (IF a.num = b.num THEN a ELSE FloatRaw(0, 0))
  ELSE IF isInf(a) THEN a
  ELSE IF isInf(b) THEN b
  ELSE Float(a.num * b.den + b.num * a.den, a.den * b.den)

floatNeg(a) == FloatRaw(-a.num, a.den)
floatSub(a, b) == floatAdd(a, floatNeg(b))

floatMul(a, b) ==
  IF isNaN(a) \/ isNaN(b) THEN FloatRaw(0, 0)
  ELSE IF isInf(a) \/ isInf(b) THEN FloatRaw(Sign(a.num) * Sign(b.num), 0)
  ELSE Float(a.num * b.num, a.den * b.den)

floatDiv(a, b) ==
  IF isNaN(a) \/ isNaN(b) THEN FloatRaw(0, 0)
  ELSE IF isInf(a) /\ isInf(b) THEN FloatRaw(0, 0)
  ELSE IF isInf(a) THEN FloatRaw(a.num * (IF b.num < 0 THEN -1 ELSE 1), 0)
  ELSE IF isInf(b) THEN FloatRaw(0, 1)
  ELSE IF b.num = 0 THEN FloatRaw(Sign(a.num), 0)
  ELSE Float(a.num * b.den, a.den * b.num)

floatLess(a, b) ==
  IF isNaN(a) \/ isNaN(b) THEN FALSE
  ELSE IF isInf(a) /\ isInf(b) THEN a.num < b.num
  ELSE IF isInf(a) THEN a.num < 0
  ELSE IF isInf(b) THEN b.num > 0
  ELSE a.num * b.den < b.num * a.den

floatEq(a, b) == ~isNaN(a) /\ ~isNaN(b) /\ a.num = b.num /\ a.den = b.den

(***************************************************************************)
(* AST nodes (package ast), as the parser builds them.                     *)
(***************************************************************************)
IntegerLiteral(n) == [k |-> "IntegerLiteral", value |-> n]
FloatLiteral(n, d) == [k |-> "FloatLiteral", num |-> n, den |-> d]
BooleanLit(b) == [k |-> "Boolean", value |-> b]
StringLiteral(s) == [k |-> "StringLiteral", value |-> s]
Identifier(x) == [k |-> "Identifier", value |-> x]
ArrayLiteral(es) == [k |-> "ArrayLiteral", elements |-> es]
\* pairs is the sequence of <<key, value>> expressions in source order; the
\* Go map ast.HashLiteral.Pairs holds them without an order.
HashLiteral(pairs) == [k |-> "HashLiteral", pairs |-> pairs]
IndexExpression(l, i) == [k |-> "IndexExpression", left |-> l, index |-> i]
PrefixExpression(op, r) == [k |-> "PrefixExpression", operator |-> op, right |-> r]
InfixExpression(op, l, r) == [k |-> "InfixExpression", operator |-> op, left |-> l, right |-> r]
BlockStatement(ss) == [k |-> "BlockStatement", statements |-> ss]
\* alternative is <<>> when the source has no else, <<block>> otherwise.
IfExpression(c, cons, alt) == [k |-> "IfExpression", condition |-> c, consequence |-> cons, alternative |-> alt]
WhileExpression(c, cons) == [k |-> "WhileExpression", condition |-> c, consequence |-> cons]
FunctionLiteral(ps, body) == [k |-> "FunctionLiteral", parameters |-> ps, body |-> body]
CallExpression(f, as) == [k |-> "CallExpression", function |-> f, arguments |-> as]
ClassStatement(name, parents, body) == [k |-> "ClassStatement", name |-> name, parents |-> parents, body |-> body]
\* property is <<>> for 'let x = e' and <<p>> for 'let x.p = e'.
LetStatement(name, property, value) == [k |-> "LetStatement", name |-> name, property |-> property, value |-> value]
ReturnStatement(v) == [k |-> "ReturnStatement", returnValue |-> v]
ExpressionStatement(e) == [k |-> "ExpressionStatement", expression |-> e]
\* value is the path as written between the quotes; alias is <<>> for
\* 'import "path"' and <<a>> for 'import "path" as "a"'.
ImportStatement(value, alias) == [k |-> "ImportStatement", value |-> value, alias |-> alias]

(***************************************************************************)
(* The interpreter's mutable state, threaded through the evaluation:       *)
(*   stores  the Go maps of the environments (several Environment structs  *)
(*           may share one map, see Closed);                               *)
(*   envs    the Environment structs: the store each holds and its outer   *)
(*           (0 is the nil pointer);                                       *)
(*   out     the lines written to standard output;                         *)
(*   nextId  the next object identifier (a fresh Go allocation);           *)
(*   fuel    the loop iterations and calls left before the host gives up;  *)
(*   order   the order in which Go's range visits the entries of a map     *)
(*           while the current top-level statement runs (a permutation of  *)
(*           1..MaxPairs; a map of n entries is visited in the order of    *)
(*           the numbers up to n in it).                                   *)
(***************************************************************************)
R(v, st) == [v |-> v, st |-> st]

\* The permutations of 1..n.
Perms(n) == {f \in [1..n -> 1..n] : \A i \in 1..n, j \in 1..n : f[i] = f[j] => i = j}

\* The entries of a map in the order in which they were written.
SourceOrder == [i \in 1..MaxPairs |-> i]

\* The order in which a range over a map of n entries visits them.
RECURSIVE visitFrom(_, _, _)
visitFrom(order, n, i) ==
  IF i > Len(order) THEN <<>>
  ELSE (IF order[i] <= n THEN <<order[i]>> ELSE <<>>) \o visitFrom(order, n, i + 1)

visit(order, n) == visitFrom(order, n, 1)

alloc(st) == [st EXCEPT !.nextId = @ + 1]

\* object.NewEnvironment
NewEnvironment(st) ==
  [env |-> Len(st.envs) + 1,
   st |-> [st EXCEPT !.stores = Append(@, <<>>),
                     !.envs = Append(@, [store |-> Len(st.stores) + 1, outer |-> 0])]]

\* object.NewEnclosedEnvironment
NewEnclosedEnvironment(outer, st) ==
  [env |-> Len(st.envs) + 1,
   st |-> [st EXCEPT !.stores = Append(@, <<>>),
                     !.envs = Append(@, [store |-> Len(st.stores) + 1, outer |-> outer])]]

\* Environment.Get: this store, else the outer chain. SetOuter can make the
\* chain cyclic; the Go recursion then overflows the stack, which ends the
\* process like a panic.
RECURSIVE GetFrom(_, _, _, _)
GetFrom(e, name, st, depth) ==
  LET store == st.stores[st.envs[e].store]
  IN IF name \in DOMAIN store THEN [ok |-> TRUE, obj |-> store[name]]
     ELSE IF st.envs[e].outer = 0 THEN [ok |-> FALSE, obj |-> NIL]
     ELSE IF depth > Len(st.envs) THEN [ok |-> FALSE, obj |-> PANIC("stack overflow")]
     ELSE GetFrom(st.envs[e].outer, name, st, depth + 1)

Get(e, name, st) == GetFrom(e, name, st, 0)

\* The environment of e's chain whose store binds name, e itself if none does.
RECURSIVE bindingEnv(_, _, _, _)
bindingEnv(e, first, name, st) ==
  IF name \in DOMAIN st.stores[st.envs[e].store] THEN e
  ELSE IF st.envs[e].outer = 0 THEN first
  ELSE bindingEnv(st.envs[e].outer, first, name, st)

\* Set as an assignment: it rebinds the name where the chain binds it.
SetWhereBound(e, name, val, st) ==
  [st EXCEPT !.stores[st.envs[bindingEnv(e, e, name, st)].store] = (name :> val) @@ @]

\* Environment.Set: always writes to the store of the environment itself.
Set(e, name, val, st) ==
  [st EXCEPT !.stores[st.envs[e].store] = (name :> val) @@ @]

\* Environment.Closed: a new Environment struct over the same map, no outer.
Closed(e, st) ==
  [env |-> Len(st.envs) + 1,
   st |-> [st EXCEPT !.envs = Append(@, [store |-> st.envs[e].store, outer |-> 0])]]

\* Environment.SetOuter / GetOuter
SetOuter(e, o, st) == [st EXCEPT !.envs[e].outer = o]
GetOuter(e, st) == st.envs[e].outer

(***************************************************************************)
(* Inspect (src/object/object.go), for the values the programs print.      *)
(***************************************************************************)
Digit(d) == CASE d = 0 -> "0" [] d = 1 -> "1" [] d = 2 -> "2" [] d = 3 -> "3" [] d = 4 -> "4"
              [] d = 5 -> "5" [] d = 6 -> "6" [] d = 7 -> "7" [] d = 8 -> "8" [] OTHER -> "9"

RECURSIVE natToString(_)
natToString(n) == IF n < 10 THEN Digit(n) ELSE natToString(n \div 10) \o Digit(n % 10)

\* fmt.Sprintf("%d", i)
intToString(n) == IF n < 0 THEN "-" \o natToString(-n) ELSE natToString(n)

RECURSIVE padDigits(_, _)
padDigits(n, width) == IF width = 0 THEN "" ELSE padDigits(n \div 10, width - 1) \o Digit(n % 10)

\* fmt.Sprintf("%f", f): six decimals, round half to even.
floatToString(f) ==
  IF isNaN(f) THEN "NaN"
  ELSE IF isInf(f) THEN (IF f.num > 0 THEN "+Inf" ELSE "-Inf")
  ELSE LET a == Abs(f.num)
           whole == a \div f.den
           rest == (a % f.den) * 1000000
           q == rest \div f.den
           m == rest % f.den
           up == 2 * m > f.den \/ (2 * m = f.den /\ q % 2 = 1)
           frac == IF up THEN q + 1 ELSE q
           w == IF frac = 1000000 THEN whole + 1 ELSE whole
           fr == IF frac = 1000000 THEN 0 ELSE frac
       IN (IF f.num < 0 THEN "-" ELSE "") \o natToString(w) \o "." \o padDigits(fr, 6)

RECURSIVE Inspect(_, _)
RECURSIVE joinInspect(_, _, _)
joinInspect(vs, i, order) ==
  IF i > Len(vs) THEN ""
  ELSE (IF i > 1 THEN ", " ELSE "") \o Inspect(vs[i], order) \o joinInspect(vs, i + 1, order)

RECURSIVE joinNames(_, _)
joinNames(ps, i) ==
  IF i > Len(ps) THEN ""
  ELSE (IF i > 1 THEN ", " ELSE "") \o ps[i] \o joinNames(ps, i + 1)

\* The body of a function is printed by the AST's String(), which the model
\* leaves as "<body>".
\* The keys of a Go map as a sequence, to range over by an order.
RECURSIVE keySeq(_)
keySeq(keys) ==
  IF keys = {} THEN <<>> ELSE LET hk == CHOOSE x \in keys : TRUE IN <<hk>> \o keySeq(keys \ {hk})

\* Hash.Inspect: the pairs as the range over the map visits them.
RECURSIVE joinPairs(_, _, _, _)
joinPairs(pairs, ks, i, order) ==
  IF i > Len(ks) THEN ""
  ELSE (IF i > 1 THEN ", " ELSE "") \o Inspect(pairs[ks[i]].key, order) \o ": "
         \o Inspect(pairs[ks[i]].value, order) \o joinPairs(pairs, ks, i + 1, order)

Inspect(v, order) ==
  CASE v.t = "INTEGER" -> intToString(v.i)
    [] v.t = "FLOAT" -> floatToString(v)
    [] v.t = "BOOLEAN" -> (IF v.b THEN "true" ELSE "false")
    [] v.t = "NULL" -> "null"
    [] v.t = "STRING" -> v.s
    [] v.t = "RETURN_VALUE" -> Inspect(v.value, order)
    [] v.t = "ERROR" -> "Error: " \o v.msg
    [] v.t = "FUNCTION" -> "fn(" \o joinNames(v.params, 1) \o ") {\n" \o "<body>" \o "\n"
    [] v.t = "BUILTIN" -> "builtin function"
    [] v.t = "ARRAY" -> "[" \o joinInspect(v.elems, 1, order) \o "]"
    [] v.t = "HASH" ->
         LET ks == keySeq(DOMAIN v.pairs)
             vis == visit(order, Len(ks))
         IN "{" \o joinPairs(v.pairs, [i \in 1..Len(vis) |-> ks[vis[i]]], 1, order) \o "}"
    [] v.t = "CLASS" -> "class " \o v.name
    [] v.t = "CLASS_INSTANCE" -> "<Instance of Class " \o v.name \o ">"
    [] v.t = "MODULE" -> "module " \o v.name
    [] OTHER -> "<nil>"

\* Inspect() called on the nil interface value panics, also when the nil is
\* reached through a ReturnValue or an Array element.
RECURSIVE inspectPanics(_)
inspectPanics(v) ==
  \/ isNil(v)
  \/ (v.t = "RETURN_VALUE" /\ inspectPanics(v.value))
  \/ (v.t = "ARRAY" /\ \E i \in 1..Len(v.elems) : inspectPanics(v.elems[i]))
  \/ (v.t = "HASH" /\ \E hk \in DOMAIN v.pairs : inspectPanics(v.pairs[hk].value))

(***************************************************************************)
(* Infix operators (src/evaluator/evaluator.go).                           *)
(***************************************************************************)
unknownOperator(operator, left, right) ==
  newError("unknown operator: " \o Type(left) \o " " \o operator \o " " \o Type(right))

\* evalIntegerInfixExpression
\* evalIntegerInfixExpression with unbounded integers and an integer quotient.
evalIntegerInfixExpressionUnbounded(operator, left, right) ==
  CASE operator = "+" -> Integer(left.i + right.i)
    [] operator = "-" -> Integer(left.i - right.i)
    [] operator = "*" -> Integer(left.i * right.i)
    [] operator = "/" -> IF right.i = 0 THEN PANIC("integer divide by zero")
                         ELSE Integer(Sign(left.i) * Sign(right.i) * (Abs(left.i) \div Abs(right.i)))
    [] operator = "<" -> nativeBoolToBooleanObject(left.i < right.i)
    [] operator = ">" -> nativeBoolToBooleanObject(left.i > right.i)
    [] operator = "==" -> nativeBoolToBooleanObject(left.i = right.i)
    [] operator = "!=" -> nativeBoolToBooleanObject(left.i # right.i)
    [] OTHER -> unknownOperator(operator, left, right)

evalIntegerInfixExpression(operator, left, right) ==
  LET leftVal == left.i
      rightVal == right.i
  IN CASE operator = "+" -> Integer(wrap(leftVal + rightVal))
       [] operator = "-" -> Integer(wrap(leftVal - rightVal))
       [] operator = "*" -> Integer(wrap(leftVal * rightVal))
       [] operator = "/" -> floatDiv(toFloat(leftVal), toFloat(rightVal))
       [] operator = "<" -> nativeBoolToBooleanObject(leftVal < rightVal)
       [] operator = ">" -> nativeBoolToBooleanObject(leftVal > rightVal)
       [] operator = "==" -> nativeBoolToBooleanObject(leftVal = rightVal)
       [] operator = "!=" -> nativeBoolToBooleanObject(leftVal # rightVal)
       [] OTHER -> unknownOperator(operator, left, right)

\* The operator switch shared by evalFloatInfixExpression and
\* evalFloatIntegerInfixExpression, on float64 operands.
floatSwitch(operator, leftVal, rightVal, left, right) ==
  CASE operator = "+" -> floatAdd(leftVal, rightVal)
    [] operator = "-" -> floatSub(leftVal, rightVal)
    [] operator = "*" -> floatMul(leftVal, rightVal)
    [] operator = "/" -> floatDiv(leftVal, rightVal)
    [] operator = "<" -> nativeBoolToBooleanObject(floatLess(leftVal, rightVal))
    [] operator = ">" -> nativeBoolToBooleanObject(floatLess(rightVal, leftVal))
    [] operator = "==" -> nativeBoolToBooleanObject(floatEq(leftVal, rightVal))
    [] operator = "!=" -> nativeBoolToBooleanObject(~floatEq(leftVal, rightVal))
    [] OTHER -> unknownOperator(operator, left, right)

\* evalFloatInfixExpression
evalFloatInfixExpression(operator, left, right) ==
  floatSwitch(operator, left, right, left, right)

\* evalFloatIntegerInfixExpression: an operand that is not an Integer is
\* asserted to be a *object.Float, and the assertion panics on anything else.
evalFloatIntegerInfixExpression(operator, left, right) ==
  IF Type(left) # "INTEGER" /\ Type(left) # "FLOAT"
  THEN PANIC("interface conversion: object.Object is " \o GoType(left) \o ", not *object.Float")
  ELSE IF Type(right) # "INTEGER" /\ Type(right) # "FLOAT"
  THEN PANIC("interface conversion: object.Object is " \o GoType(right) \o ", not *object.Float")
  ELSE LET leftVal == IF Type(left) = "INTEGER" THEN toFloat(left.i) ELSE left
           rightVal == IF Type(right) = "INTEGER" THEN toFloat(right.i) ELSE right
       IN floatSwitch(operator, leftVal, rightVal, left, right)

\* evalStringInfixExpression: the concatenation is a new String object.
evalStringInfixExpression(operator, left, right, st) ==
  IF operator = "+" THEN R(String(left.s \o right.s, st.nextId), alloc(st))
  ELSE R(unknownOperator(operator, left, right), st)

\* The guard of the mixed branch of evalInfixExpression, as written: its
\* second disjunct tests right.Type() twice.
\* The guard of the mixed branch with its first disjunct only.
mixedGuardFloatLeft(left, right) == Type(left) = "FLOAT" /\ Type(right) = "INTEGER"

mixedGuard(left, right) ==
  \/ (Type(left) = "FLOAT" /\ Type(right) = "INTEGER")
  \/ (Type(right) = "FLOAT" /\ Type(right) = "FLOAT")

\* left == right on two object.Object interface values: the same dynamic
\* type and the same pointer.
samePointer(left, right) == left = right

\* evalInfixExpression
evalInfixExpression(operator, left, right, st) ==
  IF isNil(left) \/ isNil(right) THEN R(PANIC("nil pointer dereference"), st)
  ELSE IF Type(left) = "INTEGER" /\ Type(right) = "INTEGER"
  THEN R(evalIntegerInfixExpression(operator, left, right), st)
  ELSE IF Type(left) = "FLOAT" /\ Type(right) = "FLOAT"
  THEN R(evalFloatInfixExpression(operator, left, right), st)
  ELSE IF mixedGuard(left, right)
  THEN R(evalFloatIntegerInfixExpression(operator, left, right), st)
  ELSE IF operator = "==" THEN R(nativeBoolToBooleanObject(samePointer(left, right)), st)
  ELSE IF operator = "!=" THEN R(nativeBoolToBooleanObject(~samePointer(left, right)), st)
  ELSE IF Type(left) # Type(right)
  THEN R(newError("type mismatch: " \o Type(left) \o " " \o operator \o " " \o Type(right)), st)
  ELSE IF Type(left) = "STRING" /\ Type(right) = "STRING"
  THEN evalStringInfixExpression(operator, left, right, st)
  ELSE R(unknownOperator(operator, left, right), st)

\* isTruthy: NULL and FALSE are false, everything else (the nil interface
\* included) is true.
isTruthy(obj) == ~(obj = NULL \/ obj = FALSE_OBJ)

\* evalBangOperatorExpression
evalBangOperatorExpression(right) ==
  IF right = TRUE_OBJ THEN FALSE_OBJ
  ELSE IF right = FALSE_OBJ THEN TRUE_OBJ
  ELSE IF right = NULL THEN TRUE_OBJ
  ELSE FALSE_OBJ

\* evalMinusPrefixOperatorExpression
evalMinusPrefixOperatorExpression(right) ==
  IF isNil(right) THEN PANIC("nil pointer dereference")
  ELSE IF Type(right) # "INTEGER" THEN newError("unknown operator: -" \o Type(right))
  ELSE Integer(wrap(-right.i))

\* evalPrefixExpression
evalPrefixExpression(operator, right) ==
  CASE operator = "!" -> evalBangOperatorExpression(right)
    [] operator = "-" -> evalMinusPrefixOperatorExpression(right)
    [] OTHER -> IF isNil(right) THEN PANIC("nil pointer dereference")
                ELSE newError("unknown operator: " \o operator \o Type(right))

\* unwrapReturnValue that hands the ReturnValue on to the caller.
unwrapReturnValueKeepsMarker(obj) == obj

\* unwrapReturnValue
unwrapReturnValue(obj) == IF obj.t = "RETURN_VALUE" THEN obj.value ELSE obj

(***************************************************************************)
(* Built-in functions (src/evaluator/builtinobjects.go).                   *)
(***************************************************************************)
builtinNames == {"str", "env", "len", "first", "last", "rest", "push", "puts", "hasattr", "setattr"}

println(line, st) == [st EXCEPT !.out = Append(@, line)]

\* The messages of the built-ins quote names with backquotes, written ' here.
wrongArgs(got, want) ==
  newError("wrong number of arguments. got=" \o intToString(got) \o ", want=" \o want)

nilDeref == PANIC("invalid memory address or nil pointer dereference")

\* The variants that have a HashKey method, without Float.
HashableNoFloat(key) == Type(key) \in {"INTEGER", "BOOLEAN", "STRING"}

\* key.(object.Hashable): the variants that have a HashKey method.
Hashable(key) == Type(key) \in {"INTEGER", "FLOAT", "BOOLEAN", "STRING"}

\* The HashKey {Type, Value} of a hashable value, written as a string. The
\* FNV hash of a String is taken to have no collisions.
HashKey(key) ==
  CASE Type(key) = "INTEGER" -> "INTEGER:" \o intToString(key.i)
    [] Type(key) = "FLOAT" -> "FLOAT:" \o intToString(key.num) \o "/" \o intToString(key.den)
    [] Type(key) = "BOOLEAN" -> (IF key.b THEN "BOOLEAN:1" ELSE "BOOLEAN:0")
    [] Type(key) = "STRING" -> "STRING:" \o key.s

\* pairs[hashed] = HashPair{key, value}. A HashKey whose Value is NaN is
\* equal to no HashKey, itself included: the write makes a new entry.
putPair(pairs, key, value) ==
  IF Type(key) = "FLOAT" /\ isNaN(key)
  THEN (("FLOAT:NaN#" \o natToString(Cardinality(DOMAIN pairs))) :> [key |-> key, value |-> value]) @@ pairs
  ELSE (HashKey(key) :> [key |-> key, value |-> value]) @@ pairs

\* evalHashIndexExpression
evalHashIndexExpression(hash, index, st) ==
  IF isNil(index) THEN R(nilDeref, st)
  ELSE IF ~Hashable(index) THEN R(newError("unusable as hash key: " \o Type(index)), st)
  ELSE IF Type(index) = "FLOAT" /\ isNaN(index) THEN R(NULL, st)
  ELSE IF HashKey(index) \notin DOMAIN hash.pairs THEN R(NULL, st)
  ELSE R(hash.pairs[HashKey(index)].value, st)

\* puts: one line per argument, in order; an argument whose Inspect panics
\* ends the run after the earlier lines are written.
RECURSIVE putsFrom(_, _, _)
putsFrom(args, i, st) ==
  IF i > Len(args) THEN R(NULL, st)
  ELSE IF inspectPanics(args[i]) THEN R(nilDeref, st)
  ELSE putsFrom(args, i + 1, println(Inspect(args[i], st.order), st))

builtinStr(args, st) ==
  IF Len(args) # 1
  THEN R(newError("wrong number of arguments. to str got=" \o intToString(Len(args)) \o ", want=1"), st)
  ELSE IF inspectPanics(args[1]) THEN R(nilDeref, st)
  ELSE R(String(Inspect(args[1], st.order), st.nextId), alloc(st))

\* env: prints the Environment struct of a class, an instance or a module
\* (its map and a pointer), here the line "<env>".
builtinEnv(args, st) ==
  IF Len(args) # 1
  THEN R(newError("wrong number of arguments. to str got=" \o intToString(Len(args)) \o ", want=1"), st)
  ELSE IF args[1].t \in {"CLASS_INSTANCE", "CLASS", "MODULE"} THEN R(NULL, println("<env>", st))
  ELSE R(NULL, println("Error : >>> Object has no Env", st))

builtinLen(args, st) ==
  IF Len(args) # 1 THEN R(wrongArgs(Len(args), "1"), st)
  ELSE IF args[1].t = "ARRAY" THEN R(Integer(Len(args[1].elems)), st)
  ELSE IF args[1].t = "STRING" THEN R(Integer(Len(args[1].s)), st)
  ELSE IF isNil(args[1]) THEN R(nilDeref, st)
  ELSE R(newError("argument to 'len' not supported, got " \o Type(args[1])), st)

\* The argument checks that first, last and rest share.
arrayArg(name, args) ==
  IF Len(args) # 1 THEN wrongArgs(Len(args), "1")
  ELSE IF isNil(args[1]) THEN nilDeref
  ELSE IF Type(args[1]) # "ARRAY"
  THEN newError("argument to '" \o name \o "' must be ARRAY, got " \o Type(args[1]))
  ELSE NULL

builtinFirst(args, st) ==
  IF arrayArg("first", args) # NULL THEN R(arrayArg("first", args), st)
  ELSE IF Len(args[1].elems) > 0 THEN R(args[1].elems[1], st)
  ELSE R(NULL, st)

builtinLast(args, st) ==
  IF arrayArg("last", args) # NULL THEN R(arrayArg("last", args), st)
  ELSE IF Len(args[1].elems) > 0 THEN R(args[1].elems[Len(args[1].elems)], st)
  ELSE R(NULL, st)

builtinRest(args, st) ==
  IF arrayArg("rest", args) # NULL THEN R(arrayArg("rest", args), st)
  ELSE IF Len(args[1].elems) > 0 THEN R(Array(Tail(args[1].elems), st.nextId), alloc(st))
  ELSE R(NULL, st)

builtinPush(args, st) ==
  IF Len(args) # 2 THEN R(wrongArgs(Len(args), "2"), st)
  ELSE IF isNil(args[1]) THEN R(nilDeref, st)
  ELSE IF Type(args[1]) # "ARRAY"
  THEN R(newError("first argument to 'push' must be ARRAY, got " \o Type(args[1])), st)
  ELSE R(Array(Append(args[1].elems, args[2]), st.nextId), alloc(st))

\* hasattr: the second type assertion is made on args[0] again, which the
\* first assertion has just shown to be a ClassInstance.
builtinHasattr(args, st) ==
  IF Len(args) # 2 THEN R(wrongArgs(Len(args), "2"), st)
  ELSE IF args[1].t # "CLASS_INSTANCE" THEN R(newError("Argument 1 must be a 'CLASSINSTANCE'"), st)
  ELSE IF args[1].t # "STRING" THEN R(newError("Argument 2 must be a 'STRING'"), st)
  ELSE LET c == Closed(args[1].env, st)
       IN R(nativeBoolToBooleanObject(Get(c.env, Inspect(args[1], c.st.order), c.st).ok), c.st)

\* setattr that writes an environment of the instance's own, enclosed over
\* the class's.
builtinSetattrOwn(args, st) ==
  IF Len(args) # 3 THEN R(wrongArgs(Len(args), "2"), st)
  ELSE IF args[1].t # "CLASS_INSTANCE" THEN R(newError("Argument 1 must be a 'CLASSINSTANCE'"), st)
  ELSE IF args[2].t # "STRING" THEN R(newError("Argument 2 must be a 'STRING'"), st)
  ELSE LET n == NewEnclosedEnvironment(args[1].env, st)
       IN R(args[3], Set(n.env, args[2].s, args[3], n.st))

\* setattr: writes the instance's store and prints the (value, ok) pair it
\* reads back, here the line "<" Inspect ">" " true".
builtinSetattr(args, st) ==
  IF Len(args) # 3 THEN R(wrongArgs(Len(args), "2"), st)
  ELSE IF args[1].t # "CLASS_INSTANCE" THEN R(newError("Argument 1 must be a 'CLASSINSTANCE'"), st)
  ELSE IF args[2].t # "STRING" THEN R(newError("Argument 2 must be a 'STRING'"), st)
  ELSE LET st1 == Set(args[1].env, args[2].s, args[3], st)
       IN R(args[3], println("<" \o (IF inspectPanics(args[3]) THEN "<nil>" ELSE Inspect(args[3], st.order)) \o "> true", st1))

\* fn.Fn(args...)
builtinCall(name, args, st) ==
  CASE name = "puts" -> putsFrom(args, 1, st)
    [] name = "str" -> builtinStr(args, st)
    [] name = "env" -> builtinEnv(args, st)
    [] name = "len" -> builtinLen(args, st)
    [] name = "first" -> builtinFirst(args, st)
    [] name = "last" -> builtinLast(args, st)
    [] name = "rest" -> builtinRest(args, st)
    [] name = "push" -> builtinPush(args, st)
    [] name = "hasattr" -> builtinHasattr(args, st)
    [] OTHER -> builtinSetattr(args, st)

(***************************************************************************)
(* The files ioutil.ReadFile finds, by the name written in the import      *)
(* (".monkey" is appended to it): the errors the parser reports for the    *)
(* file and the statements of the program it builds.                       *)
(*   m       prints a line, binds x, g (reads the module's x) and f (reads *)
(*           y, a name only importers bind), then reads y at top level;    *)
(*   outer   imports m and copies m.x;                                     *)
(*   broken  prints a line and binds z, and then does not parse.           *)
(***************************************************************************)
Files ==
  [m |-> [errors |-> <<>>,
          statements |->
            <<ExpressionStatement(CallExpression(Identifier("puts"), <<StringLiteral("loaded")>>)),
              LetStatement("x", <<>>, IntegerLiteral(1)),
              LetStatement("g", <<>>, FunctionLiteral(<<>>, BlockStatement(<<ExpressionStatement(Identifier("x"))>>))),
              LetStatement("f", <<>>, FunctionLiteral(<<>>, BlockStatement(<<ExpressionStatement(Identifier("y"))>>))),
              LetStatement("seen", <<>>, Identifier("y"))>>],
   outer |-> [errors |-> <<>>,
              statements |->
                <<ExpressionStatement(ImportStatement("m", <<>>)),
                  LetStatement("k", <<>>, InfixExpression(".", Identifier("m"), Identifier("x")))>>],
   broken |-> [errors |-> <<"no prefix parse function for } found",
                            "expected next token to be =, got EOF instead">>,
               statements |->
                 <<ExpressionStatement(CallExpression(Identifier("puts"), <<StringLiteral("broken")>>)),
                   LetStatement("z", <<>>, IntegerLiteral(3))>>]]

\* The loop of evalImportStatement that joins the parser's errors.
RECURSIVE joinErrors(_, _)
joinErrors(errors, i) ==
  IF i > Len(errors) THEN "" ELSE errors[i] \o joinErrors(errors, i + 1)

(***************************************************************************)
(* The evaluator (src/evaluator/evaluator.go).  Every operator returns     *)
(* R(value, state).  A PANIC or TIMEOUT value ends the run, so every       *)
(* caller hands it on unchanged.                                           *)
(***************************************************************************)
RECURSIVE Eval(_, _, _)
RECURSIVE evalBlockFrom(_, _, _, _, _)
RECURSIVE evalClassBlockFrom(_, _, _, _, _)
RECURSIVE evalExpressionsFrom(_, _, _, _, _)
RECURSIVE evalWhileFrom(_, _, _, _)
RECURSIVE evalParentsFrom(_, _, _, _, _)
RECURSIVE evalHashFrom(_, _, _, _, _, _)
RECURSIVE applyFunction(_, _, _)
RECURSIVE applyMethod(_, _, _, _)
RECURSIVE evalProgramIn(_, _, _, _, _)

\* evalIdentifier: the built-in table is consulted before the environment.
\* evalIdentifier that walks the environment chain before the built-ins.
evalIdentifierEnvFirst(node, env, st) ==
  LET g == Get(env, node.value, st)
  IN IF isAbort(g.obj) THEN R(g.obj, st)
     ELSE IF g.ok THEN R(g.obj, st)
     ELSE IF node.value \in builtinNames THEN R(Builtin(node.value), st)
     ELSE R(newError("identifier not found: " \o node.value), st)

\* evalHashLiteral: the range over node.Pairs from its i-th visited pair on.
evalHashFrom(node, vis, i, pairs, env, st) ==
  IF i > Len(vis) THEN R(Hash(pairs, st.nextId), alloc(st))
  ELSE LET key == Eval(node.pairs[vis[i]][1], env, st)
       IN IF isAbort(key.v) \/ isError(key.v) THEN key
          ELSE IF isNil(key.v) THEN R(nilDeref, key.st)
          ELSE IF ~Hashable(key.v) THEN R(newError("unusable as a hash key: " \o Type(key.v)), key.st)
          ELSE LET value == Eval(node.pairs[vis[i]][2], env, key.st)
               IN IF isAbort(value.v) \/ isError(value.v) THEN value
                  ELSE evalHashFrom(node, vis, i + 1, putPair(pairs, key.v, value.v), env, value.st)

\* evalHashLiteral
evalHashLiteral(node, env, st) ==
  evalHashFrom(node, visit(st.order, Len(node.pairs)), 1, <<>>, env, st)

evalIdentifier(node, env, st) ==
  IF node.value \in builtinNames THEN R(Builtin(node.value), st)
  ELSE LET g == Get(env, node.value, st)
       IN IF isAbort(g.obj) THEN R(g.obj, st)
          ELSE IF g.ok THEN R(g.obj, st)
          ELSE R(newError("identifier not found: " \o node.value), st)

\* evalBlockStatement: the loop from statement i on, result being the value
\* of the statement before it.
evalBlockFrom(stmts, i, result, env, st) ==
  IF i > Len(stmts) THEN R(result, st)
  ELSE LET r == Eval(stmts[i], env, st)
       IN IF isAbort(r.v) THEN r
          ELSE IF ~isNil(r.v) /\ (Type(r.v) = "RETURN_VALUE" \/ Type(r.v) = "ERROR") THEN r
          ELSE evalBlockFrom(stmts, i + 1, r.v, env, r.st)

evalBlockStatement(block, env, st) == evalBlockFrom(block.statements, 1, NIL, env, st)

\* evalClassBlockStatement: as evalBlockStatement, and a statement whose
\* value is a Function has that function's environment re-pointed to the
\* outer of the class environment.
evalClassBlockFrom(stmts, i, result, env, st) ==
  IF i > Len(stmts) THEN R(result, st)
  ELSE LET r == Eval(stmts[i], env, st)
       IN IF isAbort(r.v) THEN r
          ELSE IF ~isNil(r.v) /\ (Type(r.v) = "RETURN_VALUE" \/ Type(r.v) = "ERROR") THEN r
          ELSE IF ~isNil(r.v) /\ Type(r.v) = "FUNCTION"
          THEN evalClassBlockFrom(stmts, i + 1, r.v, env, SetOuter(r.v.env, GetOuter(env, r.st), r.st))
          ELSE evalClassBlockFrom(stmts, i + 1, r.v, env, r.st)

evalClassBlockStatement(block, env, st) == evalClassBlockFrom(block.statements, 1, NIL, env, st)

\* evalExpressions: the values left to right, or the one-element list of
\* the first Error.
evalExpressionsFrom(exps, i, result, env, st) ==
  IF i > Len(exps) THEN [vs |-> result, st |-> st]
  ELSE LET r == Eval(exps[i], env, st)
       IN IF isAbort(r.v) \/ isError(r.v) THEN [vs |-> <<r.v>>, st |-> r.st]
          ELSE evalExpressionsFrom(exps, i + 1, Append(result, r.v), env, r.st)

evalExpressions(exps, env, st) == evalExpressionsFrom(exps, 1, <<>>, env, st)

\* The test callers make on the result of evalExpressions.
firstIsError(vs) == Len(vs) = 1 /\ (isError(vs[1]) \/ isAbort(vs[1]))

\* extendFunctionEnv that binds the parameters in the function's captured
\* environment itself, without a new environment for the call.
extendFunctionEnvShared(fn, args, st) ==
  LET bound == IF Len(args) < Len(fn.params) THEN Len(args) ELSE Len(fn.params)
      bind[i \in 0..bound] == IF i = 0 THEN st ELSE Set(fn.env, fn.params[i], args[i], bind[i - 1])
  IN [env |-> fn.env, st |-> bind[bound], ok |-> Len(args) >= Len(fn.params)]

\* extendFunctionEnv: a new environment enclosed over the function's; the
\* parameters are bound from args by index, which panics when args is the
\* shorter list; arguments beyond the parameters are ignored.
extendFunctionEnv(fn, args, st) ==
  LET n == NewEnclosedEnvironment(fn.env, st)
      bound == IF Len(args) < Len(fn.params) THEN Len(args) ELSE Len(fn.params)
      bind[i \in 0..bound] == IF i = 0 THEN n.st ELSE Set(n.env, fn.params[i], args[i], bind[i - 1])
  IN [env |-> n.env, st |-> bind[bound], ok |-> Len(args) >= Len(fn.params)]

\* evalIfExpression
evalIfExpression(ie, env, st) ==
  LET c == Eval(ie.condition, env, st)
  IN IF isAbort(c.v) \/ isError(c.v) THEN c
     ELSE IF isTruthy(c.v) THEN Eval(ie.consequence, env, c.st)
     ELSE IF ie.alternative # <<>> THEN Eval(ie.alternative[1], env, c.st)
     ELSE R(NULL, c.st)

\* evalWhileExpression: the loop, result being the value of the last
\* iteration (NULL before the first). Condition and body are evaluated in
\* the environment of the loop itself.
\* evalWhileFrom with an environment of its own for each run of the body.
RECURSIVE evalWhileFromBodyEnv(_, _, _, _)
evalWhileFromBodyEnv(we, env, result, st) ==
  IF st.fuel = 0 THEN R(TIMEOUT, st)
  ELSE LET c == Eval(we.condition, env, [st EXCEPT !.fuel = @ - 1])
       IN IF isAbort(c.v) \/ isError(c.v) THEN c
          ELSE IF isTruthy(c.v)
          THEN LET n == NewEnclosedEnvironment(env, c.st)
                   b == Eval(we.consequence, n.env, n.st)
               IN IF isAbort(b.v) THEN b
                  ELSE evalWhileFromBodyEnv(we, env, IF isNil(b.v) THEN NULL ELSE b.v, b.st)
          ELSE R(result, c.st)

evalWhileFrom(we, env, result, st) ==
  IF st.fuel = 0 THEN R(TIMEOUT, st)
  ELSE LET c == Eval(we.condition, env, [st EXCEPT !.fuel = @ - 1])
       IN IF isAbort(c.v) \/ isError(c.v) THEN c
          ELSE IF isTruthy(c.v)
          THEN LET b == Eval(we.consequence, env, c.st)
               IN IF isAbort(b.v) THEN b
                  ELSE evalWhileFrom(we, env, IF isNil(b.v) THEN NULL ELSE b.v, b.st)
          ELSE R(result, c.st)

evalWhileExpression(we, env, st) == evalWhileFrom(we, env, NULL, st)

\* applyMethod: applyFunction for a Function, with self bound to the
\* receiver in the call's environment.
applyMethod(fn, left, args, st) ==
  IF isNil(fn) THEN R(nilDeref, st)
  ELSE IF Type(fn) = "FUNCTION"
  THEN IF st.fuel = 0 THEN R(TIMEOUT, st)
       ELSE LET x == extendFunctionEnv(fn, args, [st EXCEPT !.fuel = @ - 1])
            IN IF ~x.ok THEN R(PANIC("index out of range"), x.st)
               ELSE LET st1 == IF left.t = "CLASS_INSTANCE" THEN Set(x.env, "self", left, x.st) ELSE x.st
                        evaluated == Eval(fn.body, x.env, st1)
                    IN R(unwrapReturnValue(evaluated.v), evaluated.st)
  ELSE R(newError("not a function: " \o Type(fn)), st)

\* applyFunction
applyFunction(fn, args, st) ==
  IF isNil(fn) THEN R(nilDeref, st)
  ELSE IF Type(fn) = "BUILTIN" THEN builtinCall(fn.name, args, st)
  ELSE IF Type(fn) = "FUNCTION"
  THEN IF st.fuel = 0 THEN R(TIMEOUT, st)
       ELSE LET x == extendFunctionEnv(fn, args, [st EXCEPT !.fuel = @ - 1])
            IN IF ~x.ok THEN R(PANIC("index out of range"), x.st)
               ELSE LET evaluated == Eval(fn.body, x.env, x.st)
                    IN R(unwrapReturnValue(evaluated.v), evaluated.st)
  ELSE IF Type(fn) = "CLASS"
  THEN LET cls == ClassInstance(fn.name, fn.env, st.nextId)
           st1 == alloc(st)
           g == Get(fn.env, "__New__", st1)
       IN IF isAbort(g.obj) THEN R(g.obj, st1)
          ELSE IF ~g.ok THEN R(cls, st1)
          ELSE IF isNil(g.obj) THEN R(nilDeref, st1)
          ELSE IF Type(g.obj) = "FUNCTION"
          THEN LET m == applyMethod(g.obj, cls, args, st1)
               IN IF isAbort(m.v) THEN m ELSE R(cls, m.st)
          ELSE R(cls, st1)
  ELSE R(newError("not a function: " \o Type(fn)), st)

\* evalProgram on the statements of an imported file, from the i-th on.
evalProgramIn(stmts, i, result, env, st) ==
  IF i > Len(stmts) THEN R(result, st)
  ELSE LET r == Eval(stmts[i], env, st)
       IN IF isAbort(r.v) THEN r
          ELSE IF isNil(r.v) THEN evalProgramIn(stmts, i + 1, r.v, env, r.st)
          ELSE IF Type(r.v) = "RETURN_VALUE" THEN R(r.v.value, r.st)
          ELSE IF Type(r.v) = "ERROR" THEN r
          ELSE evalProgramIn(stmts, i + 1, r.v, env, r.st)

\* evalImportStatement with the file evaluated in an environment enclosed
\* by the importer's.
evalImportStatementEnclosed(Name, alias, env, st) ==
  IF Name \notin DOMAIN Files
  THEN R(PANIC("open " \o Name \o ".monkey: no such file or directory"),
         println("Could not open file : " \o Name, st))
  ELSE LET newEnv == NewEnclosedEnvironment(env, st)
       IN IF Files[Name].errors # <<>>
          THEN R(newError(joinErrors(Files[Name].errors, 1)), newEnv.st)
          ELSE LET e == evalProgramIn(Files[Name].statements, 1, NIL, newEnv.env, newEnv.st)
               IN IF isAbort(e.v) THEN e
                  ELSE R(Module(IF alias # <<>> THEN alias[1] ELSE Name, newEnv.env, e.st.nextId),
                         alloc(e.st))

\* evalImportStatement: the file is read, parsed and evaluated in a new root
\* environment; the value of its program is dropped.
evalImportStatement(Name, alias, env, st) ==
  IF Name \notin DOMAIN Files
  THEN R(PANIC("open " \o Name \o ".monkey: no such file or directory"),
         println("Could not open file : " \o Name, st))
  ELSE LET newEnv == NewEnvironment(st)
       IN IF Files[Name].errors # <<>>
          THEN R(newError(joinErrors(Files[Name].errors, 1)), newEnv.st)
          ELSE LET e == evalProgramIn(Files[Name].statements, 1, NIL, newEnv.env, newEnv.st)
               IN IF isAbort(e.v) THEN e
                  ELSE R(Module(IF alias # <<>> THEN alias[1] ELSE Name, newEnv.env, e.st.nextId),
                         alloc(e.st))

\* evalModuleDotOperation
evalModuleDotOperation(left, right, env, st) ==
  IF right.k = "CallExpression"
  THEN LET c == Closed(left.env, st)
           function == Eval(right.function, c.env, c.st)
       IN IF isAbort(function.v) \/ isError(function.v) THEN function
          ELSE LET args == evalExpressions(right.arguments, env, function.st)
               IN IF firstIsError(args.vs) THEN R(args.vs[1], args.st)
                  ELSE applyFunction(function.v, args.vs, args.st)
  ELSE IF right.k = "Identifier"
  THEN LET c == Closed(left.env, st) IN Eval(right, c.env, c.st)
  ELSE R(newError("Cannot perform Dot operation"), st)

\* evalClassDotOperation
evalClassDotOperation(left, right, env, st) ==
  IF right.k = "CallExpression"
  THEN LET c == Closed(left.env, st)
           function == Eval(right.function, c.env, c.st)
       IN IF isAbort(function.v) \/ isError(function.v) THEN function
          ELSE LET args == evalExpressions(right.arguments, env, function.st)
               IN IF firstIsError(args.vs) THEN R(args.vs[1], args.st)
                  ELSE applyMethod(function.v, left, args.vs, args.st)
  ELSE IF right.k = "Identifier"
  THEN LET c == Closed(left.env, st) IN Eval(right, c.env, c.st)
  ELSE R(newError("Cannot perform Dot operation"), st)

\* evalDotInfixExpression
evalDotInfixExpression(left, right, env, st) ==
  IF isNil(left) THEN R(nilDeref, st)
  ELSE IF Type(left) = "CLASS_INSTANCE" THEN evalClassDotOperation(left, right, env, st)
  ELSE IF Type(left) = "MODULE" THEN evalModuleDotOperation(left, right, env, st)
  ELSE R(newError("Dot operation not supported for object.ObjectType"), st)

\* Environment.ShallowCopy: every key of src's store that e does not
\* resolve (through its whole chain) is set in e's store.
\* ShallowCopy that overwrites the names the environment already binds.
ShallowCopyOverwrite(e, src, st) ==
  [st EXCEPT !.stores[st.envs[e].store] = st.stores[st.envs[src].store] @@ @]

\* Environment.ShallowCopy
ShallowCopy(e, src, st) ==
  LET from == st.stores[st.envs[src].store]
      keys == {key \in DOMAIN from : ~Get(e, key, st).ok}
      own == st.stores[st.envs[e].store]
  IN [st EXCEPT !.stores[st.envs[e].store] =
        [key \in (DOMAIN own) \cup keys |-> IF key \in keys THEN from[key] ELSE own[key]]]

\* The parent loop of the ClassStatement arm of Eval.
evalParentsFrom(parents, i, newEnv, env, st) ==
  IF i > Len(parents) THEN R(NIL, st)
  ELSE LET pResult == Eval(Identifier(parents[i]), env, st)
       IN IF isAbort(pResult.v) THEN pResult
          ELSE IF pResult.v.t # "CLASS"
          THEN R(newError("parent to be inherited from must be a class. got " \o GoType(pResult.v)), pResult.st)
          ELSE evalParentsFrom(parents, i + 1, newEnv, env, ShallowCopy(newEnv, pResult.v.env, pResult.st))

\* evalIndexExpression
evalIndexExpression(left, index, st) ==
  IF isNil(left) THEN R(nilDeref, st)
  ELSE IF Type(left) = "ARRAY" /\ isNil(index) THEN R(nilDeref, st)
  ELSE IF Type(left) = "ARRAY" /\ Type(index) = "INTEGER"
  THEN IF index.i < 0 \/ index.i > Len(left.elems) - 1 THEN R(NULL, st)
       ELSE R(left.elems[index.i + 1], st)
  ELSE IF Type(left) = "HASH" THEN evalHashIndexExpression(left, index, st)
  ELSE R(newError("index operator not supported: " \o Type(left)), st)

\* Eval
Eval(node, env, st) ==
  CASE node.k = "ExpressionStatement" -> Eval(node.expression, env, st)
    [] node.k = "ImportStatement" ->
         LET module == evalImportStatement(node.value, node.alias, env, st)
         IN IF isAbort(module.v) \/ isError(module.v) THEN module
            ELSE R(NIL, Set(env, module.v.name, module.v, module.st))
    [] node.k = "LetStatement" ->
         LET val == Eval(node.value, env, st)
         IN IF isAbort(val.v) \/ isError(val.v) THEN val
            ELSE IF node.property # <<>>
            THEN LET cls == Get(env, node.name, val.st)
                 IN IF isAbort(cls.obj) THEN R(cls.obj, val.st)
                    ELSE IF ~cls.ok THEN R(newError("unknown identifier: " \o node.name), val.st)
                    ELSE IF cls.obj.t # "CLASS_INSTANCE"
                    THEN R(newError("Dot assignment allowed only on class Instances.Cannot use dot assignment on "
                                    \o GoType(cls.obj) \o ": " \o node.name), val.st)
                    ELSE LET p == Get(cls.obj.env, node.property[1], val.st)
                         IN IF isAbort(p.obj) THEN R(p.obj, val.st)
                            ELSE IF ~p.ok
                            THEN R(newError(node.property[1] \o " is not an instance variable of class "
                                            \o Inspect(cls.obj, val.st.order)), val.st)
                            ELSE R(NIL, Set(cls.obj.env, node.property[1], val.v, val.st))
            ELSE R(NIL, Set(env, node.name, val.v, val.st))
    [] node.k = "Identifier" -> evalIdentifier(node, env, st)
    [] node.k = "IntegerLiteral" -> R(Integer(node.value), st)
    [] node.k = "FloatLiteral" -> R(Float(node.num, node.den), st)
    [] node.k = "Boolean" -> R(nativeBoolToBooleanObject(node.value), st)
    [] node.k = "StringLiteral" -> R(String(node.value, st.nextId), alloc(st))
    [] node.k = "HashLiteral" -> evalHashLiteral(node, env, st)
    [] node.k = "ArrayLiteral" ->
         LET elements == evalExpressions(node.elements, env, st)
         IN IF firstIsError(elements.vs) THEN R(elements.vs[1], elements.st)
            ELSE R(Array(elements.vs, elements.st.nextId), alloc(elements.st))
    [] node.k = "IndexExpression" ->
         LET left == Eval(node.left, env, st)
         IN IF isAbort(left.v) \/ isError(left.v) THEN left
            ELSE LET index == Eval(node.index, env, left.st)
                 IN IF isAbort(index.v) \/ isError(index.v) THEN index
                    ELSE evalIndexExpression(left.v, index.v, index.st)
    [] node.k = "PrefixExpression" ->
         LET right == Eval(node.right, env, st)
         IN IF isAbort(right.v) \/ isError(right.v) THEN right
            ELSE R(evalPrefixExpression(node.operator, right.v), right.st)
    [] node.k = "InfixExpression" ->
         LET left == Eval(node.left, env, st)
         IN IF isAbort(left.v) \/ isError(left.v) THEN left
            ELSE IF node.operator = "." THEN evalDotInfixExpression(left.v, node.right, env, left.st)
            ELSE LET right == Eval(node.right, env, left.st)
                 IN IF isAbort(right.v) \/ isError(right.v) THEN right
                    ELSE evalInfixExpression(node.operator, left.v, right.v, right.st)
    [] node.k = "BlockStatement" -> evalBlockStatement(node, env, st)
    [] node.k = "IfExpression" -> evalIfExpression(node, env, st)
    [] node.k = "WhileExpression" -> evalWhileExpression(node, env, st)
    [] node.k = "FunctionLiteral" ->
         R(Function(node.parameters, node.body, env, st.nextId), alloc(st))
    [] node.k = "ClassStatement" ->
         LET n == NewEnclosedEnvironment(env, st)
             ps == evalParentsFrom(node.parents, 1, n.env, env, n.st)
         IN IF ~isNil(ps.v) THEN ps
            ELSE LET body == evalClassBlockStatement(node.body, n.env, ps.st)
                 IN IF isAbort(body.v) THEN body
                    ELSE LET class == Class(node.name, n.env, body.st.nextId)
                         IN R(class, Set(env, node.name, class, alloc(body.st)))
    [] node.k = "CallExpression" ->
         LET function == Eval(node.function, env, st)
         IN IF isAbort(function.v) \/ isError(function.v) THEN function
            ELSE LET args == evalExpressions(node.arguments, env, function.st)
                 IN IF firstIsError(args.vs) THEN R(args.vs[1], args.st)
                    ELSE applyFunction(function.v, args.vs, args.st)
    [] node.k = "ReturnStatement" ->
         LET val == Eval(node.returnValue, env, st)
         IN IF isAbort(val.v) \/ isError(val.v) THEN val
            ELSE R(ReturnValue(val.v, val.st.nextId), alloc(val.st))
    [] node.k = "nilLetStatement" -> R(nilDeref, st)
    [] OTHER -> R(NIL, st)

(***************************************************************************)
(* The lexer (src/lexer/lexer.go).  The input is the sequence of its       *)
(* characters; positions count from 0 as in Go.  A token is its type and   *)
(* its literal, the literal being a slice of the input.                    *)
(***************************************************************************)
\* The byte 0 that readChar yields past the end of the input.
NUL == "NUL"

Letters ==
  {"a", "b", "c", "d", "e", "f", "h", "i", "l", "m", "n", "o", "p", "r", "s", "t", "u", "w", "x", "y",
   "A", "B", "_"}
Digits == {"0", "1", "2", "3", "4", "5", "6", "7", "8", "9"}

isLetter(ch) == ch \in Letters
isDigit(ch) == ch \in Digits

\* The characters that are a token of their own, the type of which is
\* written as the character itself.
SingleChars == {";", ".", "(", ")", ",", "+", "{", "}", "-", "*", "/", ":", "[", "]"}

\* token.Token as src/lexer/lexer.go builds it: Type, Literal, LineNo, CharNo.
Token(type, literal, charNo, lineNo) ==
  [type |-> type, literal |-> literal, lineNo |-> lineNo, charNo |-> charNo]
newToken(tokenType, ch, charNo, lineNo) == Token(tokenType, <<ch>>, charNo, lineNo)

\* What a read of the input outside its bytes yields (Go panics there).
OutOfRange == "index out of range"

\* l.input[i]
byteAt(input, i) == IF 0 <= i /\ i < Len(input) THEN input[i + 1] ELSE OutOfRange

\* The text of a literal, as one string.
RECURSIVE Text(_)
Text(chars) == IF chars = <<>> THEN "" ELSE Head(chars) \o Text(Tail(chars))

\* token.keywords; "while" and "as" are the two keywords the parser uses
\* beyond the table of src/token/token.go.
keywords ==
  ("fn" :> "FUNCTION") @@ ("let" :> "LET") @@ ("true" :> "TRUE") @@ ("false" :> "FALSE")
    @@ ("if" :> "IF") @@ ("else" :> "ELSE") @@ ("return" :> "RETURN") @@ ("class" :> "CLASS")
    @@ ("import" :> "IMPORT") @@ ("while" :> "WHILE") @@ ("as" :> "AS")

LookupIdent(ident) ==
  IF Text(ident) \in DOMAIN keywords THEN keywords[Text(ident)] ELSE "IDENT"

\* readChar with the end of the input taken one byte too late.
readCharLate(l) ==
  [l EXCEPT !.ch = IF l.readPosition > Len(l.input) THEN NUL ELSE byteAt(l.input, l.readPosition),
            !.charNo = IF l.readPosition > Len(l.input) THEN l.charNo ELSE l.charNo + 1,
            !.position = l.readPosition,
            !.readPosition = l.readPosition + 1]

readChar(l) ==
  [l EXCEPT !.ch = IF l.readPosition >= Len(l.input) THEN NUL ELSE byteAt(l.input, l.readPosition),
            !.charNo = IF l.readPosition >= Len(l.input) THEN l.charNo ELSE l.charNo + 1,
            !.position = l.readPosition,
            !.readPosition = l.readPosition + 1]

peekChar(l) == IF l.readPosition >= Len(l.input) THEN NUL ELSE byteAt(l.input, l.readPosition)

\* lexer.New
NewLexer(input) ==
  readChar([input |-> input, lineNo |-> 0, charNo |-> -1, position |-> 0, readPosition |-> 0,
            ch |-> NUL])

RECURSIVE skipWhitespace(_)
skipWhitespace(l) ==
  IF l.ch \in {" ", "\t", "\n", "\r"}
  THEN skipWhitespace(readChar(IF l.ch = "\n" THEN [l EXCEPT !.lineNo = l.lineNo + 1, !.charNo = 0]
                               ELSE l))
  ELSE l

\* The loops of readIdentifier, readNumber and readString: the lexer when
\* the loop ends.
RECURSIVE readIdentifierFrom(_)
readIdentifierFrom(l) ==
  IF isLetter(l.ch) \/ isDigit(l.ch) THEN readIdentifierFrom(readChar(l)) ELSE l

RECURSIVE readNumberFrom(_, _)
readNumberFrom(l, decimals) ==
  IF isDigit(l.ch) \/ l.ch = "."
  THEN IF l.ch = "." /\ decimals > 0 THEN [l |-> l, decimals |-> decimals]
       ELSE readNumberFrom(readChar(l), IF l.ch = "." THEN decimals + 1 ELSE decimals)
  ELSE [l |-> l, decimals |-> decimals]

RECURSIVE readStringFrom(_)
readStringFrom(l) ==
  IF readChar(l).ch = "\"" \/ readChar(l).ch = NUL THEN readChar(l)
  ELSE readStringFrom(readChar(l))

\* l.input[position:l.position]
slice(l, position) ==
  IF 0 <= position /\ position <= l.position /\ l.position <= Len(l.input)
  THEN SubSeq(l.input, position + 1, l.position)
  ELSE OutOfRange

readIdentifier(l) ==
  [literal |-> slice(readIdentifierFrom(l), l.position), l |-> readIdentifierFrom(l)]

readNumber(l) ==
  [type |-> IF readNumberFrom(l, 0).decimals > 0 THEN "FLOAT" ELSE "INT",
   literal |-> slice(readNumberFrom(l, 0).l, l.position),
   l |-> readNumberFrom(l, 0).l]

readString(l) ==
  [literal |-> slice(readStringFrom(l), l.position + 1), l |-> readStringFrom(l)]

\* The arms of NextToken's switch that look at the next character: the
\* two-character token if it is '=', else the one-character token.
withEquals(l, double, single) ==
  IF peekChar(l) = "="
  THEN [tok |-> Token(double, <<l.ch, readChar(l).ch>>, readChar(l).charNo, readChar(l).lineNo),
        l |-> readChar(readChar(l))]
  ELSE [tok |-> newToken(single, l.ch, l.charNo, l.lineNo), l |-> readChar(l)]

\* NextToken on the lexer behind the white space.
nextTokenAt(l) ==
  CASE l.ch \in SingleChars -> [tok |-> newToken(l.ch, l.ch, l.charNo, l.lineNo), l |-> readChar(l)]
    [] l.ch = "=" -> withEquals(l, "==", "=")
    [] l.ch = "!" -> withEquals(l, "!=", "!")
    [] l.ch = "<" -> withEquals(l, "<=", "<")
    [] l.ch = ">" -> withEquals(l, ">=", ">")
    [] l.ch = "\"" ->
         [tok |-> Token("STRING", readString(l).literal, l.charNo, l.lineNo),
          l |-> readChar(readString(l).l)]
    [] l.ch = NUL -> [tok |-> Token("EOF", <<>>, l.charNo, l.lineNo), l |-> readChar(l)]
    [] isLetter(l.ch) ->
         [tok |-> Token(LookupIdent(readIdentifier(l).literal), readIdentifier(l).literal,
                        l.charNo, l.lineNo),
          l |-> readIdentifier(l).l]
    [] isDigit(l.ch) ->
         [tok |-> Token(readNumber(l).type, readNumber(l).literal, l.charNo, l.lineNo),
          l |-> readNumber(l).l]
    [] OTHER -> [tok |-> newToken("ILLEGAL", l.ch, l.charNo, l.lineNo), l |-> readChar(l)]

\* NextToken: the token and the lexer after it.
NextToken(l) == nextTokenAt(skipWhitespace(l))

\* The tokens that successive calls of NextToken yield, up to the first EOF;
\* every later call yields EOF again, the lexer staying at the byte 0.
RECURSIVE TokensFrom(_)
TokensFrom(l) ==
  IF NextToken(l).tok.type = "EOF" THEN <<NextToken(l).tok>>
  ELSE <<NextToken(l).tok>> \o TokensFrom(NextToken(l).l)

\* A lexer as the parser sees it: the tokens it yields and how many of them
\* it has yielded.
TokenStream(l) == [input |-> l.input, tokens |-> TokensFrom(l), yielded |-> 0]

\* The next token of the stream.
Yield(stream) ==
  IF stream.yielded >= Len(stream.tokens) THEN stream.tokens[Len(stream.tokens)]
  ELSE stream.tokens[stream.yielded + 1]

(***************************************************************************)
(* The parser (package parser, src/unnamed/part_000).  A Parser is its     *)
(* lexer (as the stream of the tokens it yields), curToken, peekToken and  *)
(* errors, and three fields that only record its history:                  *)
(*   read     how many tokens other than EOF curToken has moved past;      *)
(*   stalled  a loop began an iteration with read where the iteration      *)
(*            before began (the loop is then left);                        *)
(*   silent   a parse function returned nil with the errors it was called  *)
(*            with.                                                        *)
(* Every parse function returns PR(node, parser).                          *)
(***************************************************************************)
LOWEST == 1
EQUALS == 2
LESSGREATER == 3
SUM == 4
PRODUCT == 5
PREFIX == 6
DOT == 7
CALL == 8
INDEX == 9

precedences ==
  ("==" :> EQUALS) @@ ("!=" :> EQUALS) @@ ("<" :> LESSGREATER) @@ (">" :> LESSGREATER)
    @@ ("+" :> SUM) @@ ("-" :> SUM) @@ ("/" :> PRODUCT) @@ ("*" :> PRODUCT)
    @@ ("." :> DOT) @@ ("(" :> CALL) @@ ("[" :> INDEX)

\* The token types New registers a prefix, an infix parse function for.
prefixParseFns ==
  {"IDENT", "INT", "FLOAT", "!", "-", "TRUE", "FALSE", "(", "IF", "WHILE", "FUNCTION", "STRING",
   "[", "{", "CLASS", "IMPORT"}
infixParseFns == {".", "+", "-", "/", "*", "==", "!=", "<", ">", "(", "["}

PR(node, p) == [node |-> node, p |-> p]

\* The nil Expression, and the nil *ast.LetStatement that parseStatement
\* hands on as a Statement.
NilNode == [k |-> "nil"]
NilLetStatement == [k |-> "nilLetStatement"]

nextToken(p) ==
  [p EXCEPT !.curToken = p.peekToken,
            !.peekToken = Yield(p.l),
            !.l.yielded = @ + 1,
            !.read = IF p.curToken.type \in {"EOF", ""} THEN @ ELSE @ + 1]

\* parser.New: the zero Parser reads two tokens.
NewParser(l) ==
  nextToken(nextToken([l |-> TokenStream(l), curToken |-> Token("", <<>>, 0, 0), peekToken |-> Token("", <<>>, 0, 0),
                       errors |-> <<>>, read |-> 0, stalled |-> FALSE, silent |-> FALSE]))

curTokenIs(p, t) == p.curToken.type = t
peekTokenIs(p, t) == p.peekToken.type = t

curPrecedence(p) ==
  IF p.curToken.type \in DOMAIN precedences THEN precedences[p.curToken.type] ELSE LOWEST
peekPrecedence(p) ==
  IF p.peekToken.type \in DOMAIN precedences THEN precedences[p.peekToken.type] ELSE LOWEST

addError(p, msg) == [p EXCEPT !.errors = Append(@, msg)]

noPrefixParseFnError(p, t) == addError(p, "no prefix parse function for " \o t \o " found")

peekError(p, t) ==
  addError(p, "expected next token to be " \o t \o ", got " \o p.peekToken.type \o " instead")

expectPeek(p, t) ==
  [ok |-> peekTokenIs(p, t), p |-> IF peekTokenIs(p, t) THEN nextToken(p) ELSE peekError(p, t)]

\* 'return nil' of a parse function called with the parser p0.
failed(p0, p) ==
  PR(NilNode, [p EXCEPT !.silent = @ \/ Len(p.errors) = Len(p0.errors)])

\* A loop that begins an iteration with the parser p, the iteration before
\* having begun with prev tokens read.
stalls(p, prev) == p.read = prev
stall(p) == [p EXCEPT !.stalled = TRUE]

\* The peek token after an optional semicolon.
skipSemicolon(p) == IF peekTokenIs(p, ";") THEN nextToken(p) ELSE p
skipComma(p) == IF peekTokenIs(p, ",") THEN nextToken(p) ELSE p

\* strconv.ParseInt(literal, 0, 64) on a literal of digits: octal after a
\* leading 0, decimal otherwise; -1 for a digit outside the base or a value
\* outside the integer range.
DigitValue ==
  ("0" :> 0) @@ ("1" :> 1) @@ ("2" :> 2) @@ ("3" :> 3) @@ ("4" :> 4) @@ ("5" :> 5)
    @@ ("6" :> 6) @@ ("7" :> 7) @@ ("8" :> 8) @@ ("9" :> 9)

RECURSIVE digitsValue(_, _, _)
digitsValue(chars, base, acc) ==
  IF acc < 0 \/ acc > MaxInt THEN -1
  ELSE IF chars = <<>> THEN acc
  ELSE IF DigitValue[Head(chars)] >= base THEN -1
  ELSE digitsValue(Tail(chars), base, acc * base + DigitValue[Head(chars)])

ParseInt(literal) ==
  IF Len(literal) > 1 /\ literal[1] = "0" THEN digitsValue(Tail(literal), 8, 0)
  ELSE digitsValue(literal, 10, 0)

\* strconv.ParseFloat on digits with one '.': the digits without the dot
\* over the power of ten of the digits behind it.
RECURSIVE pointAt(_, _)
pointAt(chars, i) ==
  IF i > Len(chars) THEN 0 ELSE IF chars[i] = "." THEN i ELSE pointAt(chars, i + 1)

RECURSIVE decimalValue(_, _)
decimalValue(chars, acc) ==
  IF chars = <<>> THEN acc
  ELSE IF Head(chars) = "." THEN decimalValue(Tail(chars), acc)
  ELSE decimalValue(Tail(chars), acc * 10 + DigitValue[Head(chars)])

RECURSIVE Pow10(_)
Pow10(n) == IF n = 0 THEN 1 ELSE 10 * Pow10(n - 1)

parseIdentifier(p) == PR(Identifier(Text(p.curToken.literal)), p)

parseIntegerLiteral(p) ==
  IF ParseInt(p.curToken.literal) < 0
  THEN failed(p, addError(p, "Could not parsse \"" \o Text(p.curToken.literal) \o "\" as integer"))
  ELSE PR(IntegerLiteral(ParseInt(p.curToken.literal)), p)

parseFloatLiteral(p) ==
  PR(FloatLiteral(decimalValue(p.curToken.literal, 0),
                  Pow10(Len(p.curToken.literal) - pointAt(p.curToken.literal, 1))), p)

parseBoolean(p) == PR(BooleanLit(curTokenIs(p, "TRUE")), p)

parseStringLiteral(p) == PR(StringLiteral(Text(p.curToken.literal)), p)

\* The parse functions that call one another go through parse, which calls
\* the function named f on the parser p (climbFrom: on the expression so
\* far and the parser behind it) with the arguments a, b, c.
RECURSIVE parse(_, _, _, _, _)

callParseExpression(p, precedence) == parse("parseExpression", p, precedence, 0, 0)
callParseStatement(p) == parse("parseStatement", p, 0, 0, 0)
callParseBlockFrom(p, statements, prev) == parse("parseBlockFrom", p, statements, prev, 0)
callParseHashFrom(p0, p, pairs, prev) == parse("parseHashFrom", p, p0, pairs, prev)
callParseListFrom(p, list, prev) == parse("parseListFrom", p, list, prev, 0)
callClimbFrom(left, precedence, prev) == parse("climbFrom", left, precedence, prev, 0)

\* parseBlockStatement: the statements up to the closing brace or EOF.
parseBlockStatement(p) == callParseBlockFrom(nextToken(p), <<>>, -1)

parseBlockFrom(p, statements, prev) ==
  IF curTokenIs(p, "}") \/ curTokenIs(p, "EOF") THEN PR(BlockStatement(statements), p)
  ELSE IF stalls(p, prev) THEN PR(BlockStatement(statements), stall(p))
  ELSE LET stmt == callParseStatement(p)
       IN callParseBlockFrom(nextToken(stmt.p), Append(statements, stmt.node), p.read)

parsePrefixExpression(p) ==
  LET right == callParseExpression(nextToken(p), PREFIX)
  IN PR(PrefixExpression(Text(p.curToken.literal), right.node), right.p)

parseInfixExpression(p, left) ==
  LET right == callParseExpression(nextToken(p), curPrecedence(p))
  IN PR(InfixExpression(Text(p.curToken.literal), left, right.node), right.p)

parseGroupedExpression(p) ==
  LET exp == callParseExpression(nextToken(p), LOWEST)
  IN IF ~expectPeek(exp.p, ")").ok THEN failed(p, expectPeek(exp.p, ")").p)
     ELSE PR(exp.node, expectPeek(exp.p, ")").p)

\* if and while up to the opening brace of the body: the condition, or
\* ok = FALSE where an expectPeek failed.
parseCondition(p) ==
  IF ~expectPeek(p, "(").ok THEN [ok |-> FALSE, node |-> NilNode, p |-> expectPeek(p, "(").p]
  ELSE LET condition == callParseExpression(nextToken(expectPeek(p, "(").p), LOWEST)
           close == expectPeek(condition.p, ")")
       IN IF ~close.ok THEN [ok |-> FALSE, node |-> NilNode, p |-> close.p]
          ELSE [ok |-> expectPeek(close.p, "{").ok, node |-> condition.node, p |-> expectPeek(close.p, "{").p]

parseIfExpression(p) ==
  LET head == parseCondition(p)
  IN IF ~head.ok THEN failed(p, head.p)
     ELSE LET consequence == parseBlockStatement(head.p)
          IN IF ~peekTokenIs(consequence.p, "ELSE")
             THEN PR(IfExpression(head.node, consequence.node, <<>>), consequence.p)
             ELSE LET brace == expectPeek(nextToken(consequence.p), "{")
                  IN IF ~brace.ok THEN failed(p, brace.p)
                     ELSE LET alternative == parseBlockStatement(brace.p)
                          IN PR(IfExpression(head.node, consequence.node, <<alternative.node>>),
                                alternative.p)

parseWhileExpression(p) ==
  LET head == parseCondition(p)
  IN IF ~head.ok THEN failed(p, head.p)
     ELSE LET consequence == parseBlockStatement(head.p)
          IN PR(WhileExpression(head.node, consequence.node), consequence.p)

\* The loop of parseFunctionParameters over ', name'.
RECURSIVE parseParametersFrom(_, _, _)
parseParametersFrom(p, identifiers, prev) ==
  IF ~peekTokenIs(p, ",") THEN [identifiers |-> identifiers, p |-> p]
  ELSE IF stalls(p, prev) THEN [identifiers |-> identifiers, p |-> stall(p)]
  ELSE parseParametersFrom(nextToken(nextToken(p)),
                           Append(identifiers, Text(nextToken(nextToken(p)).curToken.literal)), p.read)

parseFunctionParameters(p) ==
  IF peekTokenIs(p, ")") THEN [identifiers |-> <<>>, p |-> nextToken(p)]
  ELSE LET rest == parseParametersFrom(nextToken(p), <<Text(nextToken(p).curToken.literal)>>, -1)
       IN IF ~expectPeek(rest.p, ")").ok THEN [identifiers |-> <<>>, p |-> expectPeek(rest.p, ")").p]
          ELSE [identifiers |-> rest.identifiers, p |-> expectPeek(rest.p, ")").p]

parseFunctionLiteral(p) ==
  IF ~expectPeek(p, "(").ok THEN failed(p, expectPeek(p, "(").p)
  ELSE LET parameters == parseFunctionParameters(expectPeek(p, "(").p)
           brace == expectPeek(parameters.p, "{")
       IN IF ~brace.ok THEN failed(p, brace.p)
          ELSE LET body == parseBlockStatement(brace.p)
               IN PR(FunctionLiteral(parameters.identifiers, body.node), body.p)

\* The condition of the loop of parseClassLiteral over the parents, without
\* its test for EOF.
parentsFollowUnlessClosed(p) == ~peekTokenIs(p, ")")

\* The condition of the loop of parseClassLiteral over the parents.
parentsFollow(p) == ~peekTokenIs(p, ")") /\ ~peekTokenIs(p, "EOF")

RECURSIVE parseParentsFrom(_, _, _)
parseParentsFrom(p, parents, prev) ==
  IF ~parentsFollow(p) THEN [parents |-> parents, p |-> p]
  ELSE IF stalls(p, prev) THEN [parents |-> parents, p |-> stall(p)]
  ELSE parseParentsFrom(skipComma(nextToken(p)), Append(parents, Text(nextToken(p).curToken.literal)), p.read)

parseClassLiteral(p) ==
  IF ~expectPeek(p, "IDENT").ok THEN failed(p, expectPeek(p, "IDENT").p)
  ELSE LET name == expectPeek(p, "IDENT").p
       IN IF ~expectPeek(name, "(").ok THEN failed(p, expectPeek(name, "(").p)
          ELSE LET ps == parseParentsFrom(expectPeek(name, "(").p, <<>>, -1)
                   brace == expectPeek(nextToken(ps.p), "{")
               IN IF ~brace.ok THEN failed(p, brace.p)
                  ELSE LET body == parseBlockStatement(brace.p)
                       IN PR(ClassStatement(Text(name.curToken.literal), ps.parents, body.node), body.p)

\* hash.Pairs[key] = value: the Go map is keyed by the key's node, so every
\* key expression is an entry of its own, the nil key being one entry.
putEntry(pairs, key, value) ==
  IF key = NilNode /\ \E i \in 1..Len(pairs) : pairs[i][1] = NilNode
  THEN [i \in 1..Len(pairs) |-> IF pairs[i][1] = NilNode THEN <<key, value>> ELSE pairs[i]]
  ELSE Append(pairs, <<key, value>>)

\* The loop of parseHashLiteral, p0 being the parser parseHashLiteral was
\* called with.
parseHashFrom(p0, p, pairs, prev) ==
  IF peekTokenIs(p, "}") THEN PR(HashLiteral(pairs), nextToken(p))
  ELSE IF stalls(p, prev) THEN PR(HashLiteral(pairs), stall(p))
  ELSE LET key == callParseExpression(nextToken(p), LOWEST)
           colon == expectPeek(key.p, ":")
       IN IF ~colon.ok THEN failed(p0, colon.p)
          ELSE LET value == callParseExpression(nextToken(colon.p), LOWEST)
               IN IF peekTokenIs(value.p, "}")
                  THEN callParseHashFrom(p0, value.p, putEntry(pairs, key.node, value.node), p.read)
                  ELSE IF ~expectPeek(value.p, ",").ok THEN failed(p0, expectPeek(value.p, ",").p)
                  ELSE callParseHashFrom(p0, expectPeek(value.p, ",").p,
                                     putEntry(pairs, key.node, value.node), p.read)

parseHashLiteral(p) == callParseHashFrom(p, p, <<>>, -1)

\* The loop of parseExpressionList over ', expression'.
parseListFrom(p, list, prev) ==
  IF ~peekTokenIs(p, ",") THEN [list |-> list, p |-> p]
  ELSE IF stalls(p, prev) THEN [list |-> list, p |-> stall(p)]
  ELSE LET e == callParseExpression(nextToken(nextToken(p)), LOWEST)
       IN callParseListFrom(e.p, Append(list, e.node), p.read)

parseExpressionList(p, end) ==
  IF peekTokenIs(p, end) THEN [list |-> <<>>, p |-> nextToken(p)]
  ELSE LET first == callParseExpression(nextToken(p), LOWEST)
           rest == callParseListFrom(first.p, <<first.node>>, -1)
       IN IF ~expectPeek(rest.p, end).ok THEN [list |-> <<>>, p |-> expectPeek(rest.p, end).p]
          ELSE [list |-> rest.list, p |-> expectPeek(rest.p, end).p]

parseCallExpression(p, function) ==
  LET arguments == parseExpressionList(p, ")")
  IN PR(CallExpression(function, arguments.list), arguments.p)

parseArrayLiteral(p) ==
  LET elements == parseExpressionList(p, "]")
  IN PR(ArrayLiteral(elements.list), elements.p)

parseIndexExpression(p, left) ==
  LET index == callParseExpression(IF curTokenIs(nextToken(p), "]")
                               THEN addError(nextToken(p), "Expected an expression between '[' and ']'")
                               ELSE nextToken(p), LOWEST)
  IN IF ~expectPeek(index.p, "]").ok THEN failed(p, expectPeek(index.p, "]").p)
     ELSE PR(IndexExpression(left, index.node), expectPeek(index.p, "]").p)

parseImportStatement(p) ==
  IF ~expectPeek(p, "STRING").ok THEN failed(p, expectPeek(p, "STRING").p)
  ELSE LET importValue == callParseExpression(expectPeek(p, "STRING").p, LOWEST)
       IN IF importValue.node.k # "StringLiteral" THEN failed(p, importValue.p)
          ELSE IF ~peekTokenIs(importValue.p, "AS")
          THEN PR(ImportStatement(importValue.node.value, <<>>), skipSemicolon(importValue.p))
          ELSE LET alias == callParseExpression(expectPeek(nextToken(importValue.p), "STRING").p, LOWEST)
               IN IF alias.node.k # "StringLiteral" THEN failed(p, alias.p)
                  ELSE PR(ImportStatement(importValue.node.value, <<alias.node.value>>),
                          skipSemicolon(alias.p))

\* p.prefixParseFns[p.curToken.Type]()
prefixParse(p) ==
  CASE p.curToken.type = "IDENT" -> parseIdentifier(p)
    [] p.curToken.type = "INT" -> parseIntegerLiteral(p)
    [] p.curToken.type = "FLOAT" -> parseFloatLiteral(p)
    [] p.curToken.type \in {"!", "-"} -> parsePrefixExpression(p)
    [] p.curToken.type \in {"TRUE", "FALSE"} -> parseBoolean(p)
    [] p.curToken.type = "(" -> parseGroupedExpression(p)
    [] p.curToken.type = "IF" -> parseIfExpression(p)
    [] p.curToken.type = "WHILE" -> parseWhileExpression(p)
    [] p.curToken.type = "FUNCTION" -> parseFunctionLiteral(p)
    [] p.curToken.type = "STRING" -> parseStringLiteral(p)
    [] p.curToken.type = "[" -> parseArrayLiteral(p)
    [] p.curToken.type = "{" -> parseHashLiteral(p)
    [] p.curToken.type = "CLASS" -> parseClassLiteral(p)
    [] OTHER -> parseImportStatement(p)

\* p.infixParseFns[p.curToken.Type](left)
infixParse(p, left) ==
  CASE p.curToken.type = "(" -> parseCallExpression(p, left)
    [] p.curToken.type = "[" -> parseIndexExpression(p, left)
    [] OTHER -> parseInfixExpression(p, left)

\* The condition of the loop of parseExpression with <= for <.
climbsOrEqual(p, precedence) == ~peekTokenIs(p, ";") /\ precedence <= peekPrecedence(p)

\* The condition of the loop of parseExpression.
climbs(p, precedence) == ~peekTokenIs(p, ";") /\ precedence < peekPrecedence(p)

\* The loop of parseExpression, left being the expression so far and the
\* parser behind it.
climbFrom(left, precedence, prev) ==
  IF ~climbs(left.p, precedence) THEN left
  ELSE IF left.p.peekToken.type \notin infixParseFns THEN left
  ELSE IF stalls(left.p, prev) THEN PR(left.node, stall(left.p))
  ELSE callClimbFrom(infixParse(nextToken(left.p), left.node), precedence, left.p.read)

parseExpression(p, precedence) ==
  IF p.curToken.type \notin prefixParseFns THEN failed(p, noPrefixParseFnError(p, p.curToken.type))
  ELSE callClimbFrom(prefixParse(p), precedence, -1)

parseExpressionStatement(p) ==
  LET expression == callParseExpression(p, LOWEST)
  IN PR(ExpressionStatement(expression.node), skipSemicolon(expression.p))

\* 'return nil' of parseLetStatement.
failedLet(p0, p) == PR(NilLetStatement, failed(p0, p).p)

\* parseLetStatement behind the name and the optional '.property'.
parseLetValue(p0, name, property, p) ==
  IF ~expectPeek(p, "=").ok THEN failedLet(p0, expectPeek(p, "=").p)
  ELSE LET value == callParseExpression(nextToken(expectPeek(p, "=").p), LOWEST)
       IN PR(LetStatement(name, property, value.node), skipSemicolon(value.p))

parseLetStatement(p) ==
  IF ~expectPeek(p, "IDENT").ok THEN failedLet(p, expectPeek(p, "IDENT").p)
  ELSE LET name == expectPeek(p, "IDENT").p
       IN IF ~peekTokenIs(name, ".") THEN parseLetValue(p, Text(name.curToken.literal), <<>>, name)
          ELSE IF ~expectPeek(nextToken(name), "IDENT").ok
          THEN failedLet(p, expectPeek(nextToken(name), "IDENT").p)
          ELSE parseLetValue(p, Text(name.curToken.literal),
                             <<Text(expectPeek(nextToken(name), "IDENT").p.curToken.literal)>>,
                             expectPeek(nextToken(name), "IDENT").p)

parseReturnStatement(p) ==
  LET returnValue == callParseExpression(nextToken(p), LOWEST)
  IN PR(ReturnStatement(returnValue.node), skipSemicolon(returnValue.p))

parseStatement(p) ==
  CASE p.curToken.type = "LET" -> parseLetStatement(p)
    [] p.curToken.type = "RETURN" -> parseReturnStatement(p)
    [] OTHER -> parseExpressionStatement(p)

parse(f, p, a, b, c) ==
  CASE f = "parseExpression" -> parseExpression(p, a)
    [] f = "parseStatement" -> parseStatement(p)
    [] f = "parseBlockFrom" -> parseBlockFrom(p, a, b)
    [] f = "parseHashFrom" -> parseHashFrom(a, p, b, c)
    [] f = "parseListFrom" -> parseListFrom(p, a, b)
    [] OTHER -> climbFrom(p, a, b)

(***************************************************************************)
(* Programs: the inputs of the interpreter, as the ASTs ParseProgram       *)
(* builds for them.                                                        *)
(***************************************************************************)
Let(x, e) == LetStatement(x, <<>>, e)
Expr(e) == ExpressionStatement(e)
Id(x) == Identifier(x)
Num(n) == IntegerLiteral(n)
Str(x) == StringLiteral(x)
Call(f, as) == CallExpression(f, as)
Puts(e) == Expr(Call(Id("puts"), <<e>>))
Fn(ps, ss) == FunctionLiteral(ps, BlockStatement(ss))
If(c, ss) == IfExpression(c, BlockStatement(ss), <<>>)
IfElse(c, ss, es) == IfExpression(c, BlockStatement(ss), <<BlockStatement(es)>>)
While(c, ss) == WhileExpression(c, BlockStatement(ss))
Infix(op, l, r) == InfixExpression(op, l, r)

\* All sequences over alphabet of length 1..n.
RECURSIVE SeqsUpTo(_, _)
SeqsUpTo(alphabet, n) ==
  IF n = 0 THEN {<<>>}
  ELSE LET shorter == SeqsUpTo(alphabet, n - 1)
       IN shorter \cup {Append(q, a) : q \in shorter, a \in alphabet}

\* Statements that bind, print, fail, return and call.
ErrorAlphabet ==
  { Let("a", Num(1)),
    Puts(Str("p")),
    Expr(Id("a")),
    Expr(Infix("+", Num(1), BooleanLit(TRUE))),
    Let("b", Id("zz")),
    ReturnStatement(Num(7)) }

ErrorPrograms == SeqsUpTo(ErrorAlphabet, MaxStmts) \ {<<>>}

\* The values programs are written with.
SmallInts == 0..2
Bools == {TRUE, FALSE}

\* fn(x) { ... }: a return of v nested in depth if-blocks on x, each block
\* followed by a statement that prints.
RECURSIVE ReturnNest(_, _)
ReturnNest(depth, v) ==
  IF depth = 0 THEN <<ReturnStatement(Num(v)), Puts(Str("dead"))>>
  ELSE <<Expr(If(Id("x"), ReturnNest(depth - 1, v))), Puts(Str("dead"))>>

ReturnBody(depth, v) ==
  IF depth = 0 THEN <<ReturnStatement(Num(v)), Puts(Str("dead")), Expr(Num(0))>>
  ELSE <<Expr(If(Id("x"), ReturnNest(depth - 1, v))), Puts(Str("fell")), Expr(Num(0))>>

\* f returns from inside the if-blocks; g calls f and goes on; the top level
\* calls g, then f, and goes on.
ReturnProgram(depth, v, b) ==
  << Let("f", Fn(<<"x">>, ReturnBody(depth, v))),
     Let("g", Fn(<<"x">>, <<Let("r", Call(Id("f"), <<Id("x")>>)),
                           Puts(Str("back")),
                           Expr(Infix("+", Id("r"), Num(1)))>>)),
     Expr(Call(Id("g"), <<BooleanLit(b)>>)),
     Expr(Call(Id("f"), <<BooleanLit(b)>>)),
     Puts(Str("top")) >>

ReturnPrograms == {ReturnProgram(d, v, b) : d \in 0..MaxDepth, v \in SmallInts, b \in Bools}

\* let x = v1; let f = fn() { x }; let g = fn() { let x = v2; f() }; g()
CallerScopeProgram(v1, v2) ==
  << Let("x", Num(v1)),
     Let("f", Fn(<<>>, <<Expr(Id("x"))>>)),
     Let("g", Fn(<<>>, <<Let("x", Num(v2)), Expr(Call(Id("f"), <<>>))>>)),
     Expr(Call(Id("g"), <<>>)) >>

\* let y = v1; let f = fn() { y }; let y = v2; f()
CallTimeProgram(v1, v2) ==
  << Let("y", Num(v1)),
     Let("f", Fn(<<>>, <<Expr(Id("y"))>>)),
     Let("y", Num(v2)),
     Expr(Call(Id("f"), <<>>)) >>

\* let fact = fn(n) { if (n < 2) { return 1 } return n * fact(n - 1) }; fact(k)
FactorialProgram(k) ==
  << Let("fact", Fn(<<"n">>,
        <<Expr(If(Infix("<", Id("n"), Num(2)), <<ReturnStatement(Num(1))>>)),
          ReturnStatement(Infix("*", Id("n"), Call(Id("fact"), <<Infix("-", Id("n"), Num(1))>>)))>>)),
     Expr(Call(Id("fact"), <<Num(k)>>)) >>

\* let mk = fn() { let c = v1; fn() { c } }; let rd = mk(); let c = v2; rd()
ClosureProgram(v1, v2) ==
  << Let("mk", Fn(<<>>, <<Let("c", Num(v1)), Expr(Fn(<<>>, <<Expr(Id("c"))>>))>>)),
     Let("rd", Call(Id("mk"), <<>>)),
     Let("c", Num(v2)),
     Expr(Call(Id("rd"), <<>>)) >>

\* let h = fn(a) { if (a) { let t = v } t }; h(true); h(false); a
FreshEnvProgram(v) ==
  << Let("h", Fn(<<"a">>, <<Expr(If(Id("a"), <<Let("t", Num(v))>>)), Expr(Id("t"))>>)),
     Expr(Call(Id("h"), <<BooleanLit(TRUE)>>)),
     Expr(Call(Id("h"), <<BooleanLit(FALSE)>>)) >>

\* let p = fn(q) { q }; p(v); q
ParameterProgram(v) ==
  << Let("p", Fn(<<"q">>, <<Expr(Id("q"))>>)),
     Expr(Call(Id("p"), <<Num(v)>>)),
     Expr(Id("q")) >>

ScopePrograms ==
  {CallerScopeProgram(v1, v2) : v1 \in SmallInts, v2 \in SmallInts}
  \cup {CallTimeProgram(v1, v2) : v1 \in SmallInts, v2 \in SmallInts}
  \cup {FactorialProgram(k) : k \in 0..MaxDepth + 1}
  \cup {ClosureProgram(v1, v2) : v1 \in SmallInts, v2 \in SmallInts}
  \cup {FreshEnvProgram(v) : v \in SmallInts}
  \cup {ParameterProgram(v) : v \in SmallInts}

\* Functions that bind their parameters and let names that the captured
\* environment and the root also bind:
\*   let x = 1; let c = 2; let i = 0;
\*   let f = fn(x) { let x = x + 1; let c = x; c };
\*   let mk = fn() { let c = 5; fn(d) { let c = c + d; let x = c; c } };
\*   let inc = mk();
\*   let w = fn(n) { let i = 0; while (i < n) { let i = i + 1 } i };
\*   let o = fn(a) { let x = inc(a); let c = f(x); w(c) };
FrameHeader ==
  << Let("x", Num(1)),
     Let("c", Num(2)),
     Let("i", Num(0)),
     Let("f", Fn(<<"x">>, <<Let("x", Infix("+", Id("x"), Num(1))), Let("c", Id("x")), Expr(Id("c"))>>)),
     Let("mk", Fn(<<>>, <<Let("c", Num(5)),
                          Expr(Fn(<<"d">>, <<Let("c", Infix("+", Id("c"), Id("d"))),
                                             Let("x", Id("c")),
                                             Expr(Id("c"))>>))>>)),
     Let("inc", Call(Id("mk"), <<>>)),
     Let("w", Fn(<<"n">>, <<Let("i", Num(0)),
                            Expr(While(Infix("<", Id("i"), Id("n")),
                                       <<Let("i", Infix("+", Id("i"), Num(1)))>>)),
                            Expr(Id("i"))>>)),
     Let("o", Fn(<<"a">>, <<Let("x", Call(Id("inc"), <<Id("a")>>)),
                            Let("c", Call(Id("f"), <<Id("x")>>)),
                            Expr(Call(Id("w"), <<Id("c")>>))>>)) >>

FrameCalls ==
  { Expr(Call(Id("f"), <<Num(2)>>)),
    Expr(Call(Id("inc"), <<Num(1)>>)),
    Expr(Call(Id("w"), <<Num(2)>>)),
    Expr(Call(Id("o"), <<Num(0)>>)) }

FramePrograms == {FrameHeader \o q : q \in SeqsUpTo(FrameCalls, MaxStmts) \ {<<>>}}

\* let i = a; while (i < b) { let i = i + 1 } i
WhileProgram(a, b) ==
  << Let("i", Num(a)),
     Expr(While(Infix("<", Id("i"), Num(b)), <<Let("i", Infix("+", Id("i"), Num(1)))>>)),
     Expr(Id("i")) >>

WhilePrograms == {WhileProgram(a, b) : a \in SmallInts, b \in 0..MaxLoop}

\* let B = 5; B
ShadowLetProgram(B) == << Let(B, Num(5)), Expr(Id(B)) >>

\* let f = fn(B) { B }; f(5)
ShadowParameterProgram(B) ==
  << Let("f", Fn(<<B>>, <<Expr(Id(B))>>)), Expr(Call(Id("f"), <<Num(5)>>)) >>

\* class A() { let B = 5 }; let a = A(); a.B
ShadowMemberProgram(B) ==
  << Expr(ClassStatement("A", <<>>, BlockStatement(<<Let(B, Num(5))>>))),
     Let("a", Call(Id("A"), <<>>)),
     Expr(Infix(".", Id("a"), Id(B))) >>

\* let len = fn(x) { 7 }; len("ab")
ShadowCallProgram == << Let("len", Fn(<<"x">>, <<Expr(Num(7))>>)), Expr(Call(Id("len"), <<Str("ab")>>)) >>

ShadowPrograms ==
  {ShadowLetProgram(B) : B \in builtinNames} \cup {ShadowParameterProgram(B) : B \in builtinNames}
    \cup {ShadowMemberProgram(B) : B \in builtinNames} \cup {ShadowCallProgram}

\* The operators the parser builds an InfixExpression for, '.' apart.
Operators == {"+", "-", "*", "/", "<", ">", "==", "!="}

Neg(e) == PrefixExpression("-", e)

\* Integer operands: 0, 1, 2, -1, the largest, its negation and the smallest.
IntOperands ==
  {Num(0), Num(1), Num(2), Neg(Num(1)), Num(MaxInt), Neg(Num(MaxInt)), Infix("-", Neg(Num(MaxInt)), Num(1))}

\* Float operands: 0.0, 1.5, 2.0, 0.0 - 1.5 and 0.0 / 0.0 (NaN).
FloatOperands ==
  {FloatLiteral(0, 1), FloatLiteral(3, 2), FloatLiteral(2, 1),
   Infix("-", FloatLiteral(0, 1), FloatLiteral(3, 2)),
   Infix("/", FloatLiteral(0, 1), FloatLiteral(0, 1))}

\* true, false, "a", "b", "" and if (false) { 1 } (null).
OtherOperands ==
  {BooleanLit(TRUE), BooleanLit(FALSE), Str("a"), Str("b"), Str(""), If(BooleanLit(FALSE), <<Expr(Num(1))>>)}

Operands == IntOperands \cup FloatOperands \cup OtherOperands

\* l op r
InfixProgram(op, l, r) == << Expr(Infix(op, l, r)) >>

InfixPrograms == {InfixProgram(op, l, r) : op \in Operators, l \in Operands, r \in Operands}

\* class A() { }
ClassA == Expr(ClassStatement("A", <<>>, BlockStatement(<<>>)))

Index(l, i) == IndexExpression(l, i)

\* Key expressions of every variant: 1, true, "a", 1.5, null, [], {},
\* fn() { }, the class A, an instance of A, the built-in len.
KeyOperands ==
  {Num(1), BooleanLit(TRUE), Str("a"), FloatLiteral(3, 2), If(BooleanLit(FALSE), <<Expr(Num(1))>>),
   ArrayLiteral(<<>>), HashLiteral(<<>>), Fn(<<>>, <<>>), Id("A"), Call(Id("A"), <<>>), Id("len")}

\* class A() { }; {k: 7}
HashKeyLiteralProgram(k) == << ClassA, Expr(HashLiteral(<< <<k, Num(7)>> >>)) >>

\* class A() { }; {1: 7}[k]
HashKeyIndexProgram(k) == << ClassA, Expr(Index(HashLiteral(<< <<Num(1), Num(7)>> >>), k)) >>

\* class A() { }; let h = {k: 7}; h[k]
HashKeyLookupProgram(k) ==
  << ClassA, Let("h", HashLiteral(<< <<k, Num(7)>> >>)), Expr(Index(Id("h"), k)) >>

HashKeyPrograms ==
  {HashKeyLiteralProgram(k) : k \in KeyOperands} \cup {HashKeyIndexProgram(k) : k \in KeyOperands}
    \cup {HashKeyLookupProgram(k) : k \in KeyOperands}

\* {1: puts("a"), 2: puts("b")}
PairOutputProgram ==
  << Expr(HashLiteral(<< <<Num(1), Puts(Str("a"))>>, <<Num(2), Puts(Str("b"))>> >>)) >>

\* {1: puts("a"), 2: puts("b"), 3: puts("c")}
TripleOutputProgram ==
  << Expr(HashLiteral(<< <<Num(1), Puts(Str("a"))>>, <<Num(2), Puts(Str("b"))>>,
                         <<Num(3), Puts(Str("c"))>> >>)) >>

\* {1: yy, 2: zz}
PairErrorProgram == << Expr(HashLiteral(<< <<Num(1), Id("yy")>>, <<Num(2), Id("zz")>> >>)) >>

\* let h = {1: 10, 1: 20}; h[1]
PairDuplicateProgram ==
  << Let("h", HashLiteral(<< <<Num(1), Num(10)>>, <<Num(1), Num(20)>> >>)), Expr(Index(Id("h"), Num(1))) >>

\* puts({1: 2, 3: 4})
PairInspectProgram == << Expr(Puts(HashLiteral(<< <<Num(1), Num(2)>>, <<Num(3), Num(4)>> >>))) >>

\* The programs with a hash literal of more than one pair.
PairPrograms ==
  {PairOutputProgram, TripleOutputProgram, PairErrorProgram, PairDuplicateProgram, PairInspectProgram}

\* let x.p = e
LetDot(x, property, e) == LetStatement(x, <<property>>, e)

Dot(l, r) == InfixExpression(".", l, r)

\* let p = 1; class A() { }; let a = A(); let a.p = 5; a.p
DottedEnclosingProgram ==
  << Let("p", Num(1)), ClassA, Let("a", Call(Id("A"), <<>>)), LetDot("a", "p", Num(5)),
     Expr(Dot(Id("a"), Id("p"))) >>

\* class A() { }; let a = A(); let a.p = 5
DottedMissingProgram == << ClassA, Let("a", Call(Id("A"), <<>>)), LetDot("a", "p", Num(5)) >>

\* class A() { let p = 1 }; let a = A(); let a.p = 5; a.p
DottedExistingProgram ==
  << Expr(ClassStatement("A", <<>>, BlockStatement(<<Let("p", Num(1))>>))), Let("a", Call(Id("A"), <<>>)),
     LetDot("a", "p", Num(5)), Expr(Dot(Id("a"), Id("p"))) >>

\* let u.p = 5
DottedUnboundProgram == << LetDot("u", "p", Num(5)) >>

\* 1, "a" and the class A.
NotInstances == {Num(1), Str("a"), Id("A")}

\* class A() { }; let n = v; let n.p = 5
DottedNotInstanceProgram(v) == << ClassA, Let("n", v), LetDot("n", "p", Num(5)) >>

DottedPrograms ==
  {DottedEnclosingProgram, DottedMissingProgram, DottedExistingProgram, DottedUnboundProgram}
    \cup {DottedNotInstanceProgram(v) : v \in NotInstances}

\* class A() { members }
ClassOf(name, parents, members) == Expr(ClassStatement(name, parents, BlockStatement(members)))

\* class A() { let __New__ = fn() { let self.x = 7 } } let a = A(); a.x
ConstructorProgram ==
  << ClassOf("A", <<>>, <<Let("__New__", Fn(<<>>, <<LetDot("self", "x", Num(7))>>))>>),
     Let("a", Call(Id("A"), <<>>)),
     Expr(Dot(Id("a"), Id("x"))) >>

\* class A() { let x = 0; let __New__ = fn() { let self.x = 7 } } let a = A(); a.x
ConstructorDeclaredProgram ==
  << ClassOf("A", <<>>, <<Let("x", Num(0)), Let("__New__", Fn(<<>>, <<LetDot("self", "x", Num(7))>>))>>),
     Let("a", Call(Id("A"), <<>>)),
     Expr(Dot(Id("a"), Id("x"))) >>

ConstructorPrograms == {ConstructorProgram, ConstructorDeclaredProgram}

\* The parent lists of the class C and the members its body may bind.
ParentLists == {<<>>, <<"P1">>, <<"P2">>, <<"P1", "P2">>, <<"P2", "P1">>}
BodyMembers == SUBSET {"m", "k"}

\* The lets of the names of a set, each to the value v.
RECURSIVE LetsOf(_, _)
LetsOf(names, v) ==
  IF names = {} THEN <<>>
  ELSE LET name == CHOOSE x \in names : TRUE IN <<Let(name, v)>> \o LetsOf(names \ {name}, v)

\* class P1() { let m = 1; let n = 1 }; class P2() { let m = 2; let k = 2 };
\* class C(parents) { let b = 3 for each b of body }; let c = C(); c.m
InheritProgram(parents, body) ==
  << ClassOf("P1", <<>>, <<Let("m", Num(1)), Let("n", Num(1))>>),
     ClassOf("P2", <<>>, <<Let("m", Num(2)), Let("k", Num(2))>>),
     ClassOf("C", parents, LetsOf(body, Num(3))),
     Let("c", Call(Id("C"), <<>>)),
     Expr(Dot(Id("c"), Id("m"))) >>

InheritPrograms == {InheritProgram(parents, body) : parents \in ParentLists, body \in BodyMembers}

\* class A() { let v = 1; let m = fn() { body } } let a = A(); a.m()
MethodProgram(body) ==
  << ClassOf("A", <<>>, <<Let("v", Num(1)), Let("m", Fn(<<>>, <<Expr(body)>>))>>),
     Let("a", Call(Id("A"), <<>>)),
     Expr(Dot(Id("a"), Call(Id("m"), <<>>))) >>

\* The method reads the sibling member v bare, or as self.v.
SiblingBareProgram == MethodProgram(Id("v"))
SiblingSelfProgram == MethodProgram(Dot(Id("self"), Id("v")))

SiblingPrograms == {SiblingBareProgram, SiblingSelfProgram}

\* import "path" and import "path" as "alias", as expression statements.
Import(path, alias) == Expr(ImportStatement(path, alias))

\* What the importer evaluates after the import, the module being bound as
\* name: a name of the module bare, the importer's own y, and the module's
\* members through the dot.
ImportProbes(name) ==
  { Id("x"), Id("g"), Id("y"),
    Dot(Id(name), Id("x")), Dot(Id(name), Id("seen")),
    Dot(Id(name), Call(Id("g"), <<>>)), Dot(Id(name), Call(Id("f"), <<>>)) }

ImportAliases == {<<>>, <<"n">>, <<"y">>}

\* The name the import binds.
ImportName(path, alias) == IF alias # <<>> THEN alias[1] ELSE path

\* let y = 2; import "m" [as alias]; probe
ImportProgram(alias, probe) == << Let("y", Num(2)), Import("m", alias), Expr(probe) >>

ImportModulePrograms ==
  { ImportProgram(alias, probe) : alias \in ImportAliases, probe \in ImportProbes("m") \cup ImportProbes("n") }

\* The importer binds x before it imports a module that binds x too.
ImportShadowProgram == << Let("x", Num(5)), Import("m", <<>>), Expr(Id("x")) >>
\* The imported file does not parse, or does not exist.
ImportBrokenProgram == << Let("y", Num(2)), Import("broken", <<>>), Expr(Id("y")) >>
ImportMissingProgram == << Let("y", Num(2)), Import("nofile", <<>>), Expr(Id("y")) >>
\* The imported file imports m itself.
ImportNestedProgram(probe) == << Let("y", Num(2)), Import("outer", <<>>), Expr(probe) >>
\* The import runs in the environment of a call.
ImportInCallProgram ==
  << Let("h", Fn(<<>>, <<Import("m", <<>>), Expr(Dot(Id("m"), Id("x")))>>)),
     Expr(Call(Id("h"), <<>>)),
     Expr(Id("m")) >>

ImportPrograms ==
  ImportModulePrograms
    \cup {ImportShadowProgram, ImportBrokenProgram, ImportMissingProgram, ImportInCallProgram}
    \cup {ImportNestedProgram(probe) : probe \in {Id("m"), Id("k"), Dot(Id("outer"), Id("k")),
                                                  Dot(Id("outer"), Id("m"))}}

(***************************************************************************)
(* Source texts: the inputs of the lexer, as sequences of characters.      *)
(***************************************************************************)
\* Longest sequence of lexemes drawn from the lexeme alphabet.
MaxTokens == 3

\* The words, a blank between each two.
RECURSIVE Spaced(_)
Spaced(words) ==
  IF words = <<>> THEN <<>>
  ELSE IF Len(words) = 1 THEN words[1]
  ELSE words[1] \o <<" ">> \o Spaced(Tail(words))

\* Openers, closers, separators, a literal and the keywords that open a
\* construct with a loop of its own.
Lexemes ==
  { <<"{">>, <<"}">>, <<"(">>, <<"[">>, <<",">>, <<":">>, <<"1">>, <<"x">>,
    <<"f", "n">>, <<"c", "l", "a", "s", "s">>, <<"l", "e", "t">> }

LexemeSources == { Spaced(words) : words \in SeqsUpTo(Lexemes, MaxTokens) }

\* let h = {1: 2, "a": 3};
HashSource ==
  <<"l", "e", "t", " ", "h", " ", "=", " ", "{", "1", ":", " ", "2", ",", " ", "\"", "a", "\"",
    ":", " ", "3", "}", ";">>

\* [3, 4][0]
ArraySource ==
  <<"[", "3", ",", " ", "4", "]", "[", "0", "]">>

\* class A(B, B) { let m = 1 }
ClassSource ==
  <<"c", "l", "a", "s", "s", " ", "A", "(", "B", ",", " ", "B", ")", " ", "{", " ", "l", "e",
    "t", " ", "m", " ", "=", " ", "1", " ", "}">>

\* fn(a, b) { return a }
FunctionSource ==
  <<"f", "n", "(", "a", ",", " ", "b", ")", " ", "{", " ", "r", "e", "t", "u", "r", "n", " ",
    "a", " ", "}">>

\* if (a < b) { a } else { a[0] }
IfSource ==
  <<"i", "f", " ", "(", "a", " ", "<", " ", "b", ")", " ", "{", " ", "a", " ", "}", " ", "e",
    "l", "s", "e", " ", "{", " ", "a", "[", "0", "]", " ", "}">>

\* (a + b) * -2.5
GroupSource ==
  <<"(", "a", " ", "+", " ", "b", ")", " ", "*", " ", "-", "2", ".", "5">>

\* while (!x) { f(1) }
WhileSource ==
  <<"w", "h", "i", "l", "e", " ", "(", "!", "x", ")", " ", "{", " ", "f", "(", "1", ")", " ",
    "}">>

\* import "m" as "n"; f(1, !x)
ImportSource ==
  <<"i", "m", "p", "o", "r", "t", " ", "\"", "m", "\"", " ", "a", "s", " ", "\"", "n", "\"",
    ";", " ", "f", "(", "1", ",", " ", "!", "x", ")">>

\* let y = 2; import "broken"; y
ImportBrokenSource ==
  <<"l", "e", "t", " ", "y", " ", "=", " ", "2", ";", " ",
    "i", "m", "p", "o", "r", "t", " ", "\"", "b", "r", "o", "k", "e", "n",
    "\"", ";", " ", "y">>

\* import "m" + 1
ImportSumSource ==
  <<"i", "m", "p", "o", "r", "t", " ", "\"", "m", "\"", " ", "+", " ", "1">>

\* Every source cut off after n characters.
Prefixes(source) == { SubSeq(source, 1, n) : n \in 0..Len(source) }

TruncatedSources ==
  Prefixes(HashSource) \cup Prefixes(ArraySource) \cup Prefixes(ClassSource)
    \cup Prefixes(FunctionSource) \cup Prefixes(IfSource) \cup Prefixes(GroupSource)
    \cup Prefixes(WhileSource) \cup Prefixes(ImportSource)

\* The binary operators, as the characters of their tokens.
OperatorChars ==
  ("==" :> <<"=", "=">>) @@ ("!=" :> <<"!", "=">>) @@ ("<" :> <<"<">>) @@ (">" :> <<">">>)
    @@ ("+" :> <<"+">>) @@ ("-" :> <<"-">>) @@ ("*" :> <<"*">>) @@ ("/" :> <<"/">>)
    @@ ("<=" :> <<"<", "=">>) @@ (">=" :> <<">", "=">>)

BinaryOperators == {"==", "!=", "<", ">", "+", "-", "*", "/"}

\* The operand triples: integer literals, identifiers.
OperandTriples == { <<"1", "2", "3">>, <<"a", "b", "c">> }

\* a op1 b op2 c
PrecedenceSource(op1, op2, operands) ==
  Spaced(<< <<operands[1]>>, OperatorChars[op1], <<operands[2]>>, OperatorChars[op2], <<operands[3]>> >>)

PrecedenceSources ==
  { PrecedenceSource(op1, op2, operands) :
      op1 \in BinaryOperators, op2 \in BinaryOperators, operands \in OperandTriples }

\* a op b for the two-character relational operators, with and without
\* blanks around the operator.
RelationalDigits == {"0", "1", "2"}
RelationalSource(op, a, b) == Spaced(<< <<a>>, OperatorChars[op], <<b>> >>)
RelationalDenseSource(op, a, b) == <<a>> \o OperatorChars[op] \o <<b>>

RelationalSources ==
  { RelationalSource(op, a, b) : op \in {"<=", ">="}, a \in RelationalDigits, b \in RelationalDigits }
    \cup { RelationalDenseSource(op, a, b) : op \in {"<=", ">="}, a \in RelationalDigits, b \in RelationalDigits }

Sources ==
  LexemeSources \cup TruncatedSources \cup {ImportSumSource, ImportBrokenSource}
    \cup PrecedenceSources \cup RelationalSources

\* The orders in which Go's range may visit the maps a statement of the
\* program ranges over; a program without a map of two entries runs the
\* same in every order.
Orders(p) == IF p \in PairPrograms THEN Perms(MaxPairs) ELSE {SourceOrder}

\* let q = 1; class A() { let m = 1 }; let a = A(); hasattr(a, name)
HasattrProgram(name) ==
  << Let("q", Num(1)),
     ClassOf("A", <<>>, <<Let("m", Num(1))>>),
     Let("a", Call(Id("A"), <<>>)),
     Expr(Call(Id("hasattr"), <<Id("a"), Str(name)>>)) >>

\* A member, a name of the scope around the class, a name bound nowhere.
HasattrNames == {"m", "q", "zz"}

HasattrPrograms == {HasattrProgram(name) : name \in HasattrNames}

\* The argument lists of a call of a function of one parameter.
ArityArgs == {<<>>, <<Num(1)>>, <<Num(1), Num(2)>>}

\* let f = fn(x) { puts("body"); x }; f(args)
ArityProgram(args) ==
  << Let("f", Fn(<<"x">>, <<Puts(Str("body")), Expr(Id("x"))>>)), Expr(Call(Id("f"), args)) >>

\* class A() { let m = fn(x) { puts("body"); x } }; let a = A(); a.m(args)
ArityMethodProgram(args) ==
  << ClassOf("A", <<>>, <<Let("m", Fn(<<"x">>, <<Puts(Str("body")), Expr(Id("x"))>>))>>),
     Let("a", Call(Id("A"), <<>>)),
     Expr(Dot(Id("a"), Call(Id("m"), args))) >>

ArityPrograms == {ArityProgram(args) : args \in ArityArgs} \cup {ArityMethodProgram(args) : args \in ArityArgs}

\* The two ways to write a property of an instance.
ShareWrites == {"let", "setattr"}
ShareWrite(write) ==
  IF write = "let" THEN LetDot("a", "p", Num(5))
  ELSE Expr(Call(Id("setattr"), <<Id("a"), Str("p"), Num(5)>>))

\* class A() { let k = 1; [let p = 0] }; let b = A(); let a = A(); write;
\* let c = A(); reader.p
ShareProgram(declared, write, reader) ==
  << ClassOf("A", <<>>, <<Let("k", Num(1))>> \o (IF declared THEN <<Let("p", Num(0))>> ELSE <<>>)),
     Let("b", Call(Id("A"), <<>>)),
     Let("a", Call(Id("A"), <<>>)),
     ShareWrite(write),
     Let("c", Call(Id("A"), <<>>)),
     Expr(Dot(Id(reader), Id("p"))) >>

ShareReaders == {"a", "b", "c"}

SharePrograms ==
  {ShareProgram(declared, write, reader) : declared \in Bools, write \in ShareWrites, reader \in ShareReaders}

\* let f = fn() { while (true) { return 1 } }; f()
WhileReturnProgram ==
  << Let("f", Fn(<<>>, <<Expr(While(BooleanLit(TRUE), <<ReturnStatement(Num(1))>>))>>)),
     Expr(Call(Id("f"), <<>>)) >>

\* let i = 0; while (i < 2) { let i = i + 1; puts("body"); zz }
WhileErrorProgram ==
  << Let("i", Num(0)),
     Expr(While(Infix("<", Id("i"), Num(2)),
                <<Let("i", Infix("+", Id("i"), Num(1))), Puts(Str("body")), Expr(Id("zz"))>>)) >>

WhileExitPrograms == {WhileReturnProgram, WhileErrorProgram}

\* class P() { let m = 1; let n = 2 }; [let m = 9;] class C(P) { }; let c = C(); c.m
ShadowedInheritProgram(shadowed) ==
  << ClassOf("P", <<>>, <<Let("m", Num(1)), Let("n", Num(2))>>) >>
    \o (IF shadowed THEN <<Let("m", Num(9))>> ELSE <<>>)
    \o << ClassOf("C", <<"P">>, <<>>),
          Let("c", Call(Id("C"), <<>>)),
          Expr(Dot(Id("c"), Id("m"))) >>

ShadowedInheritPrograms == {ShadowedInheritProgram(shadowed) : shadowed \in Bools}

\* let x = if (true) { return 5 }; puts("after")
MarkerLetProgram ==
  << Let("x", If(BooleanLit(TRUE), <<ReturnStatement(Num(5))>>)), Puts(Str("after")) >>

\* let a = [if (true) { return 5 }]; puts("after")
MarkerArrayProgram ==
  << Let("a", ArrayLiteral(<<If(BooleanLit(TRUE), <<ReturnStatement(Num(5))>>)>>)), Puts(Str("after")) >>

\* let f = fn(p) { 1 }; f(if (true) { return 5 }); puts("after")
MarkerArgumentProgram ==
  << Let("f", Fn(<<"p">>, <<Expr(Num(1))>>)),
     Expr(Call(Id("f"), <<If(BooleanLit(TRUE), <<ReturnStatement(Num(5))>>)>>)),
     Puts(Str("after")) >>

MarkerPrograms == {MarkerLetProgram, MarkerArrayProgram, MarkerArgumentProgram}

\* The bodies of a function and the blocks of an if that yield no value.
NilBlocks == {<<>>, <<Let("y", Num(1))>>}

\* let f = fn() { block }; let x = f(); x + 1
NilCallProgram(block) ==
  << Let("f", Fn(<<>>, block)), Let("x", Call(Id("f"), <<>>)), Expr(Infix("+", Id("x"), Num(1))) >>

\* let x = if (true) { block }; puts(x)
NilIfProgram(block) ==
  << Let("x", If(BooleanLit(TRUE), block)), Puts(Id("x")) >>

NilPrograms == {NilCallProgram(block) : block \in NilBlocks} \cup {NilIfProgram(block) : block \in NilBlocks}

Programs ==
  HashKeyPrograms \cup PairPrograms \cup DottedPrograms \cup ConstructorPrograms \cup InheritPrograms
    \cup SiblingPrograms \cup ImportPrograms
    \cup ErrorPrograms \cup ReturnPrograms \cup ScopePrograms \cup FramePrograms \cup WhilePrograms
    \cup ShadowPrograms \cup InfixPrograms \cup HasattrPrograms \cup ArityPrograms \cup SharePrograms
    \cup WhileExitPrograms \cup ShadowedInheritPrograms \cup MarkerPrograms \cup NilPrograms

(***************************************************************************)
(* The interpreter run: main (the file form) builds the root environment   *)
(* and evalProgram walks the top-level statements.                         *)
(***************************************************************************)
VARIABLES
  prog,     \* program.Statements
  pc,       \* index of the statement evalProgram evaluates next
  st,       \* the interpreter's state: stores, envs, out, nextId, fuel
  result,   \* evalProgram's result variable
  status,   \* "parsing" (in ParseProgram), "rejected" (main printed the
            \* parser's errors), "running", "done" (evalProgram returned),
            \* "panic", "killed"
  parser,   \* the Parser
  program,  \* the statements ParseProgram has appended
  lexer,    \* a Lexer whose NextToken is called again and again
  tok       \* the token its last call returned

vars == <<prog, pc, st, result, status, parser, program, lexer, tok>>

root == 1

InitState ==
  NewEnvironment([stores |-> <<>>, envs |-> <<>>, out |-> <<>>, nextId |-> 1, fuel |-> MaxFuel,
                  order |-> SourceOrder]).st

\* The evaluator starts on a program as ParseProgram has built it.
Init ==
  /\ prog \in Programs
  /\ pc = 1
  /\ st = InitState
  /\ result = NIL
  /\ status = "running"
  /\ parser = NewParser(NewLexer(<<>>))
  /\ program = <<>>
  /\ lexer = NewLexer(<<>>)
  /\ tok = Token("", <<>>, 0, 0)

\* main starts on a source text, which it parses before it evaluates it.
SourceInit ==
  /\ prog = <<>>
  /\ pc = 1
  /\ st = InitState
  /\ result = NIL
  /\ status = "parsing"
  /\ \E input \in Sources : parser = NewParser(NewLexer(input))
  /\ program = <<>>
  /\ lexer = NewLexer(<<>>)
  /\ tok = Token("", <<>>, 0, 0)

\* main going on to evaluate whatever the parser reported.
ParseReturnIgnoresErrors ==
  /\ status = "parsing"
  /\ curTokenIs(parser, "EOF")
  /\ status' = "running"
  /\ prog' = program
  /\ UNCHANGED <<pc, st, result, parser, program, lexer, tok>>

\* One iteration of ParseProgram's loop.
ParseStatement ==
  /\ status = "parsing"
  /\ ~curTokenIs(parser, "EOF")
  /\ ~parser.stalled
  /\ LET stmt == callParseStatement(parser)
     IN /\ program' = Append(program, stmt.node)
        /\ parser' = IF nextToken(stmt.p).read = parser.read THEN stall(nextToken(stmt.p))
                      ELSE nextToken(stmt.p)
  /\ UNCHANGED <<prog, pc, st, result, status, lexer, tok>>

\* ParseProgram returns; main prints the parser's errors and returns, or
\* evaluates the program.
ParseReturn ==
  /\ status = "parsing"
  /\ curTokenIs(parser, "EOF")
  /\ IF parser.errors # <<>>
     THEN status' = "rejected" /\ prog' = prog
     ELSE status' = "running" /\ prog' = program
  /\ UNCHANGED <<pc, st, result, parser, program, lexer, tok>>

\* Eval(statement, env) as evalProgram calls it, with the statement's fuel.
RunIn(statement, s, order) ==
  [v |-> Eval(statement, root, [s EXCEPT !.fuel = MaxFuel, !.order = order]).v,
   st |-> [Eval(statement, root, [s EXCEPT !.fuel = MaxFuel, !.order = order]).st
             EXCEPT !.order = SourceOrder]]

\* The same with every map visited in the order in which it was written.
Run(statement, s) == RunIn(statement, s, SourceOrder)

\* evalProgram from its i-th statement on, every map visited in the order in
\* which it was written.
RECURSIVE evalProgramFrom(_, _, _, _)
evalProgramFrom(stmts, i, last, s) ==
  IF i > Len(stmts) THEN R(last, s)
  ELSE IF isAbort(Run(stmts[i], s).v) \/ isError(Run(stmts[i], s).v) THEN Run(stmts[i], s)
  ELSE IF Run(stmts[i], s).v.t = "RETURN_VALUE" THEN R(Run(stmts[i], s).v.value, Run(stmts[i], s).st)
  ELSE evalProgramFrom(stmts, i + 1, Run(stmts[i], s).v, Run(stmts[i], s).st)

\* evalProgram on a new root environment.
evalProgram(stmts) == evalProgramFrom(stmts, 1, NIL, InitState)

\* EvalStatement without the 'case *object.Error' of evalProgram's switch: the
\* loop goes on after a statement that yields an Error.
EvalStatementIgnoresError ==
  /\ status = "running"
  /\ pc <= Len(prog)
  /\ \E order \in Orders(prog) :
     LET r == RunIn(prog[pc], st, order)
     IN /\ st' = r.st
        /\ IF isAbort(r.v)
           THEN /\ status' = (IF r.v.t = "PANIC" THEN "panic" ELSE "killed")
                /\ result' = r.v
                /\ pc' = pc
           ELSE IF r.v.t = "RETURN_VALUE"
           THEN /\ status' = "done"
                /\ result' = r.v.value
                /\ pc' = pc
           ELSE /\ status' = "running"
                /\ result' = r.v
                /\ pc' = pc + 1
  /\ UNCHANGED <<prog, parser, program, lexer, tok>>

\* One iteration of evalProgram's loop.
EvalStatement ==
  /\ status = "running"
  /\ pc <= Len(prog)
  /\ \E order \in Orders(prog) :
     LET r == RunIn(prog[pc], st, order)
     IN /\ st' = r.st
        /\ IF isAbort(r.v)
           THEN /\ status' = (IF r.v.t = "PANIC" THEN "panic" ELSE "killed")
                /\ result' = r.v
                /\ pc' = pc
           ELSE IF r.v.t = "RETURN_VALUE"
           THEN /\ status' = "done"
                /\ result' = r.v.value
                /\ pc' = pc
           ELSE IF r.v.t = "ERROR"
           THEN /\ status' = "done"
                /\ result' = r.v
                /\ pc' = pc
           ELSE /\ status' = "running"
                /\ result' = r.v
                /\ pc' = pc + 1
  /\ UNCHANGED <<prog, parser, program, lexer, tok>>

\* The loop is over: evalProgram returns result.
ReturnResult ==
  /\ status = "running"
  /\ pc > Len(prog)
  /\ status' = "done"
  /\ UNCHANGED <<prog, pc, st, result, parser, program, lexer, tok>>

Next == EvalStatement \/ ReturnResult

Spec == Init /\ [][Next]_vars

SourceNext == ParseStatement \/ ParseReturn \/ EvalStatement \/ ReturnResult

SourceSpec == SourceInit /\ [][SourceNext]_vars

(***************************************************************************)
(* The lexer on its own: a caller that constructs a Lexer on an input and  *)
(* calls NextToken again and again, past the end of the input too.         *)
(***************************************************************************)
MaxBytes == 3
MaxExtraCalls == 3

\* The bytes the inputs are made of: one of each kind NextToken tells
\* apart, the byte 0 among them.
Bytes == {"a", "1", ".", "=", "<", "!", "\"", " ", "\n", ";", NUL}

Inputs == SeqsUpTo(Bytes, MaxBytes)

LexInit ==
  /\ prog = <<>>
  /\ pc = 1
  /\ st = InitState
  /\ result = NIL
  /\ status = "lexing"
  /\ parser = NewParser(NewLexer(<<>>))
  /\ program = <<>>
  /\ \E input \in Inputs : lexer = NewLexer(input)
  /\ tok = Token("", <<>>, 0, 0)

CallNextToken ==
  /\ status = "lexing"
  /\ lexer.readPosition <= Len(lexer.input) + MaxExtraCalls
  /\ lexer' = NextToken(lexer).l
  /\ tok' = NextToken(lexer).tok
  /\ UNCHANGED <<prog, pc, st, result, status, parser, program>>

LexNext == CallNextToken

LexSpec == LexInit /\ [][LexNext]_vars

(***************************************************************************)
(* Properties.                                                             *)
(***************************************************************************)
\* The state after the first k statements of stmts were each evaluated once,
\* in order, in the root environment of a fresh run.
RECURSIVE PrefixState(_, _)
PrefixState(stmts, k) ==
  IF k = 0 THEN InitState ELSE Run(stmts[k], PrefixState(stmts, k - 1)).st

\* What statement j of stmts evaluates to after the statements before it.
StatementResult(stmts, j) == Run(stmts[j], PrefixState(stmts, j - 1))

\* C1: a program that ends with an Error ends with the Error of the first
\* top-level statement that yields one, in the state that statement left (no
\* later statement has written an environment or printed); a program that
\* ends otherwise has evaluated no statement that yields an Error.
C1_FirstErrorStops ==
  status = "done" /\ Orders(prog) = {SourceOrder} =>
    IF isError(result)
    THEN /\ pc \in 1..Len(prog)
         /\ StatementResult(prog, pc) = R(result, st)
         /\ \A j \in 1..(pc - 1) : ~isError(StatementResult(prog, j).v)
    ELSE \A j \in 1..Len(prog) : j < pc \/ (j = pc /\ pc <= Len(prog)) => ~isError(StatementResult(prog, j).v)

\* An Error in the middle of a program: statements before it have printed,
\* statements after it exist.
C1_Witness ==
  /\ status = "done"
  /\ isError(result)
  /\ 1 < pc /\ pc < Len(prog)
  /\ st.out # <<>>
  /\ prog[pc + 1] = Puts(Str("p"))

\* C2: a return inside a function body, at any depth of if-blocks, makes the
\* call yield the returned value itself: the statements after it in the body
\* do not run ("dead" is never printed), the calling function g goes on with
\* its next statement and binds the value (no ReturnValue is ever bound), and
\* the top level goes on after its own call of f.
C2_ReturnEndsOneCall ==
  \A d \in 0..MaxDepth, v \in SmallInts, b \in Bools :
    prog = ReturnProgram(d, v, b) =>
      /\ status \in {"running", "done"}
      /\ \A i \in 1..Len(st.out) : st.out[i] # "dead"
      /\ \A s \in 1..Len(st.stores) : \A n \in DOMAIN st.stores[s] :
           st.stores[s][n].t # "RETURN_VALUE"
      /\ pc = 4 => /\ result = Integer(IF b \/ d = 0 THEN v + 1 ELSE 1)
                   /\ st.out = (IF b \/ d = 0 THEN <<"back">> ELSE <<"fell", "back">>)
      /\ pc = 5 => /\ result = Integer(IF b \/ d = 0 THEN v ELSE 0)
                   /\ status = "running"
      /\ status = "done" => pc = 6 /\ st.out[Len(st.out)] = "top"

\* The return at the deepest nesting was taken and the program ran to its end.
C2_Witness ==
  /\ prog = ReturnProgram(MaxDepth, 2, TRUE)
  /\ status = "done"
  /\ st.out = <<"back", "top">>

RECURSIVE Factorial(_)
Factorial(n) == IF n = 0 THEN 1 ELSE n * Factorial(n - 1)

\* C3: a free identifier of a function body is resolved through the
\* environment the function literal was evaluated in, with its bindings as
\* they are when the call runs (so a function can call itself), and not
\* through the caller's environment; each call has an environment of its
\* own, so a let or a parameter of one call is not bound in the next call or
\* in the caller.
C3_LexicalScope ==
  /\ prog \in ScopePrograms => status \in {"running", "done"}
  /\ \A v1 \in SmallInts, v2 \in SmallInts :
       /\ prog = CallerScopeProgram(v1, v2) /\ status = "done" => result = Integer(v1)
       /\ prog = CallTimeProgram(v1, v2) /\ status = "done" => result = Integer(v2)
       /\ prog = ClosureProgram(v1, v2) /\ status = "done" => result = Integer(v1)
  /\ \A k \in 0..MaxDepth + 1 :
       prog = FactorialProgram(k) /\ status = "done" => result = Integer(Factorial(k))
  /\ \A v \in SmallInts :
       /\ prog = FreshEnvProgram(v) /\ pc = 3 /\ status = "running" => result = Integer(v)
       /\ prog = FreshEnvProgram(v) /\ status = "done" =>
            pc = 3 /\ result = newError("identifier not found: t")
       /\ prog = ParameterProgram(v) /\ pc = 3 /\ status = "running" => result = Integer(v)
       /\ prog = ParameterProgram(v) /\ status = "done" =>
            pc = 3 /\ result = newError("identifier not found: q")

\* The second call of h did not find the t the first call had bound.
C3_Witness ==
  /\ prog = FreshEnvProgram(1)
  /\ status = "done"
  /\ pc = 3
  /\ isError(result)

\* The statement is a call f(...) of a user function bound to f in the root.
IsUserCall(statement, s) ==
  /\ statement.k = "ExpressionStatement"
  /\ statement.expression.k = "CallExpression"
  /\ statement.expression.function.k = "Identifier"
  /\ evalIdentifier(statement.expression.function, root, s).v.t = "FUNCTION"

\* C4: across a call of a user function (with the calls, lets and loops its
\* body makes) every store that existed before the call, the store of the
\* function's captured environment and of the environments around it among
\* them, is what it was before the call, and so is every outer pointer.
C4_CallWritesOwnStore ==
  [][(status = "running" /\ pc <= Len(prog) /\ IsUserCall(prog[pc], st)) =>
       /\ \A s \in 1..Len(st.stores) : st'.stores[s] = st.stores[s]
       /\ \A e \in 1..Len(st.envs) : st'.envs[e] = st.envs[e]]_vars

\* o(0) has run: it called inc (whose captured environment is the one of the
\* call of mk), f and w, which let the names x, c and i that the captured
\* environments bind.
C4_Witness ==
  /\ prog \in FramePrograms
  /\ pc = Len(FrameHeader) + 2
  /\ prog[pc - 1] = Expr(Call(Id("o"), <<Num(0)>>))
  /\ result = Integer(6)
  /\ st.stores[root]["x"] = Integer(1)

Max(a, b) == IF a < b THEN b ELSE a

\* C5 (as stated): the let of the while body leaves the i of the environment
\* around the loop as it was, so the program yields the a it started with
\* (0 for a = 0 and b = 3).
C5_OuterBindingUnchanged ==
  \A a \in SmallInts, b \in 0..MaxLoop :
    prog = WhileProgram(a, b) /\ pc > 2 =>
      /\ st.stores[root]["i"] = Integer(a)
      /\ status = "done" => result = Integer(a)

\* C5 (amended): the body of a while runs in the environment the loop itself
\* is evaluated in, no environment is made for it; its let rebinds the i the
\* condition reads, the loop ends when i reaches the limit with the value
\* null (the let of its body has no value), and the program yields that i
\* (3 for a = 0 and b = 3).
C5_BodySharesLoopEnv ==
  \A a \in SmallInts, b \in 0..MaxLoop :
    prog = WhileProgram(a, b) =>
      /\ status \in {"running", "done"}
      /\ Len(st.envs) = 1
      /\ pc > 2 => st.stores[root]["i"] = Integer(Max(a, b))
      /\ pc = 3 /\ status = "running" => result = NULL
      /\ status = "done" => result = Integer(Max(a, b))

\* The loop ran three times and the i read after it is 3.
C5_Witness ==
  /\ prog = WhileProgram(0, 3)
  /\ status = "done"
  /\ result = Integer(3)

\* C6: in every environment of every reachable state, whatever its chain
\* binds, each built-in name evaluates to the built-in; a let, a parameter
\* or a class member of that name is bound but never read, and a call of
\* the name runs the built-in.
C6_BuiltinsNotShadowed ==
  /\ \A e \in 1..Len(st.envs) : \A B \in builtinNames :
       evalIdentifier(Identifier(B), e, st) = R(Builtin(B), st)
  /\ \A B \in builtinNames :
       /\ prog = ShadowLetProgram(B) /\ status = "done" => result = Builtin(B)
       /\ prog = ShadowParameterProgram(B) /\ status = "done" => result = Builtin(B)
       /\ prog = ShadowMemberProgram(B) /\ status = "done" => result = Builtin(B)
  /\ prog = ShadowCallProgram /\ status = "done" => result = Integer(2)

\* A class member named len is bound in the instance's store, and reading
\* a.len gave the built-in.
C6_Witness ==
  /\ prog = ShadowMemberProgram("len")
  /\ status = "done"
  /\ result = Builtin("len")
  /\ \E s \in 1..Len(st.stores) :
       "len" \in DOMAIN st.stores[s] /\ st.stores[s]["len"] = Integer(5)

\* The value an operand expression evaluates to on its own.
OperandValue(e) == Eval(e, root, InitState).v

\* The infix expression of a program l op r.
TheInfix == prog[1].expression

\* C7 (as stated): for every operand x that evaluates to an Int, a Float, a
\* Bool, a String or Null, the program x == x yields true and x != x yields
\* false; and whenever l == r yields a Bool, l != r yields its negation.
C7_EqualityByValue ==
  prog \in InfixPrograms /\ status # "running" =>
    /\ TheInfix.operator = "==" /\ TheInfix.left = TheInfix.right =>
         status = "done" /\ result = TRUE_OBJ
    /\ TheInfix.operator = "!=" /\ TheInfix.left = TheInfix.right =>
         status = "done" /\ result = FALSE_OBJ
    /\ TheInfix.operator = "!="
         /\ Type(StatementResult(InfixProgram("==", TheInfix.left, TheInfix.right), 1).v) = "BOOLEAN"
       => result = evalBangOperatorExpression(
                     StatementResult(InfixProgram("==", TheInfix.left, TheInfix.right), 1).v)

\* C8 (as stated): an operator other than == and != on operands of different
\* variants that are not an Int and a Float yields the Error
\* "type mismatch: L op R" and the run does not crash.
C8_TypeMismatchError ==
  (/\ prog \in InfixPrograms
   /\ status # "running"
   /\ TheInfix.operator \notin {"==", "!="}
   /\ Type(OperandValue(TheInfix.left)) # Type(OperandValue(TheInfix.right))
   /\ {Type(OperandValue(TheInfix.left)), Type(OperandValue(TheInfix.right))} # {"INTEGER", "FLOAT"})
  => /\ status = "done"
     /\ result = newError("type mismatch: " \o Type(OperandValue(TheInfix.left)) \o " "
                            \o TheInfix.operator \o " " \o Type(OperandValue(TheInfix.right)))

\* An Int widened to a Float; a Float is left as it is.
Widen(v) == IF Type(v) = "INTEGER" THEN toFloat(v.i) ELSE v

\* C9: for an Int and a Float operand in either order and each of the eight
\* operators, the program ends with what the Float-Float operation gives on
\* the operands with the Int widened; it is no Error.
C9_MixedNumericWidened ==
  (/\ prog \in InfixPrograms
   /\ status # "running"
   /\ {Type(OperandValue(TheInfix.left)), Type(OperandValue(TheInfix.right))} = {"INTEGER", "FLOAT"})
  => /\ status = "done"
     /\ ~isError(result)
     /\ result = evalFloatInfixExpression(TheInfix.operator, Widen(OperandValue(TheInfix.left)),
                                          Widen(OperandValue(TheInfix.right)))

\* 2 * 1.5, the Int on the left, gave the Float 3.
C9_Witness ==
  /\ prog = InfixProgram("*", Num(2), FloatLiteral(3, 2))
  /\ status = "done"
  /\ result = Float(3, 1)

\* The integer result of l op r on unbounded integers.
Exact(op, a, b) == CASE op = "+" -> a + b [] op = "-" -> a - b [] op = "*" -> a * b

\* C10: for Int operands a and b the programs a + b, a - b and a * b end with
\* the Int of the range that is congruent to the exact result modulo
\* 2^IntBits, and a / b ends with a Float, the quotient a / b when b is not 0
\* and an infinity or NaN when it is; no run crashes or ends with an Error.
C10_IntegerArithmetic ==
  (/\ prog \in InfixPrograms
   /\ status # "running"
   /\ TheInfix.operator \in {"+", "-", "*", "/"}
   /\ TheInfix.left \in IntOperands
   /\ TheInfix.right \in IntOperands)
  => /\ status = "done"
     /\ IF TheInfix.operator = "/"
        THEN /\ Type(result) = "FLOAT"
             /\ result.num * OperandValue(TheInfix.right).i = OperandValue(TheInfix.left).i * result.den
             /\ (result.den = 0) = (OperandValue(TheInfix.right).i = 0)
        ELSE /\ Type(result) = "INTEGER"
             /\ result.i \in MinInt..MaxInt
             /\ (result.i - Exact(TheInfix.operator, OperandValue(TheInfix.left).i,
                                  OperandValue(TheInfix.right).i)) % Pow2(IntBits) = 0

\* The largest Int plus 1 wrapped to the smallest.
C10_Witness ==
  /\ prog = InfixProgram("+", Num(MaxInt), Num(1))
  /\ status = "done"
  /\ result = Integer(MinInt)

\* The value the key expression of a hash key program evaluates to.
KeyValue(k) == Eval(k, root, PrefixState(prog, 1)).v

C12_Deterministic ==
  status # "running" =>
    /\ result = evalProgram(prog).v
    /\ st.out = evalProgram(prog).st.out
    /\ st.stores = evalProgram(prog).st.stores

\* The store of the environment of the instance bound to a in the root.
InstanceStore == st.stores[st.envs[st.stores[root]["a"].env].store]

\* C13 (as stated): let a.p = 5 on an instance a whose own environment does
\* not bind p is an Error and binds no p in the instance environment, also
\* when p is bound in the scope around the class; on an unbound name and on
\* a name bound to something that is not an instance it is an Error and no
\* store changes; on an instance that has p it mutates p.
C13_DottedLetOnlyMutates ==
  /\ prog \in {DottedEnclosingProgram, DottedMissingProgram} /\ "a" \in DOMAIN st.stores[root] =>
       "p" \notin DOMAIN InstanceStore
  /\ prog = DottedEnclosingProgram /\ status # "running" =>
       /\ status = "done" /\ pc = 4
       /\ result = newError("p is not an instance variable of class <Instance of Class A>")
  /\ prog = DottedMissingProgram /\ status # "running" =>
       /\ status = "done" /\ pc = 3
       /\ result = newError("p is not an instance variable of class <Instance of Class A>")
  /\ prog = DottedUnboundProgram /\ status # "running" =>
       /\ status = "done" /\ pc = 1
       /\ result = newError("unknown identifier: u")
       /\ st.stores = InitState.stores
  /\ prog \in {DottedNotInstanceProgram(v) : v \in NotInstances} /\ status # "running" =>
       /\ status = "done" /\ pc = 3
       /\ isError(result)
       /\ st.stores = PrefixState(prog, 2).stores
  /\ prog = DottedExistingProgram /\ status # "running" =>
       status = "done" /\ pc = 5 /\ result = Integer(5)

\* C14 (as stated): the constructor's let self.x = 7 creates x on the new
\* instance although the class body does not declare x: the program runs to
\* its end and a.x yields 7.
C14_ConstructorCreatesProperty ==
  prog = ConstructorProgram /\ status # "running" =>
    /\ status = "done"
    /\ pc = Len(prog) + 1
    /\ result = Integer(7)

\* The store of the environment of the class bound to name in the root.
ClassStore(name) == st.stores[st.envs[st.stores[root][name].env].store]

\* What the class P binds the member to in its body, 0 if it does not.
ParentMember(P, member) ==
  CASE P = "P1" /\ member \in {"m", "n"} -> 1
    [] P = "P2" /\ member \in {"m", "k"} -> 2
    [] OTHER -> 0

\* The member of the leftmost parent from the i-th on that has it, 0 if none.
RECURSIVE LeftmostFrom(_, _, _)
LeftmostFrom(parents, i, member) ==
  IF i > Len(parents) THEN 0
  ELSE IF ParentMember(parents[i], member) # 0 THEN ParentMember(parents[i], member)
  ELSE LeftmostFrom(parents, i + 1, member)

C16_SiblingsOnlyThroughSelf ==
  /\ prog = SiblingBareProgram /\ status # "running" =>
       status = "done" /\ result = newError("identifier not found: v")
  /\ prog = SiblingSelfProgram /\ status # "running" =>
       status = "done" /\ result = Integer(1)

\* The Go map of the root environment.
RootStore == st.stores[st.envs[root].store]

\* The Module the root environment binds as name, and the Go map of its
\* environment.
ModuleStore(name) == st.stores[st.envs[RootStore[name].env].store]

\* C17: after let y = 2; import "m" [as alias] the root environment binds y
\* as before and, new, the alias (else the path) to a Module, and nothing
\* else; the module's environment has no outer, does not bind y, and holds
\* the module's top-level names, none of which the importer resolves bare;
\* a function of the module that reads y yields identifier not found, also
\* when the importer calls it.  An importer that binds x itself keeps its
\* x; a file that does not parse binds nothing and yields the joined parser
\* errors; an import inside a call binds the module in the call's
\* environment only.
C17_ImportIsolation ==
  /\ prog \in ImportModulePrograms /\ pc >= 3 =>
       LET name == ImportName("m", prog[2].expression.alias)
       IN /\ DOMAIN RootStore = {"y", name}
          /\ name # "y" => RootStore["y"] = Integer(2)
          /\ RootStore[name].t = "MODULE"
          /\ RootStore[name].name = name
          /\ st.envs[RootStore[name].env].outer = 0
          /\ st.envs[RootStore[name].env].store # st.envs[root].store
          /\ DOMAIN ModuleStore(name) = {"x", "g", "f"}
          /\ ModuleStore(name)["x"] = Integer(1)
          /\ ~Get(RootStore[name].env, "y", st).ok
          /\ \A member \in DOMAIN ModuleStore(name) :
               Eval(Id(member), root, st).v = newError("identifier not found: " \o member)
          /\ applyFunction(ModuleStore(name)["f"], <<>>, [st EXCEPT !.fuel = MaxFuel]).v
               = newError("identifier not found: y")
          /\ status # "running" =>
               LET probe == prog[3].expression
               IN /\ status = "done"
                  /\ probe \in {Id("x"), Id("g")} =>
                       result = newError("identifier not found: " \o probe.value)
                  /\ probe = Id("y") =>
                       result = (IF name = "y" THEN RootStore[name] ELSE Integer(2))
                  /\ probe = Dot(Id(name), Id("x")) => result = Integer(1)
                  /\ probe = Dot(Id(name), Call(Id("g"), <<>>)) => result = Integer(1)
                  /\ probe = Dot(Id(name), Call(Id("f"), <<>>)) =>
                       result = newError("identifier not found: y")
                  /\ probe = Dot(Id(name), Id("seen")) =>
                       result = newError("identifier not found: seen")
  /\ prog = ImportShadowProgram /\ pc >= 3 =>
       /\ DOMAIN RootStore = {"x", "m"}
       /\ RootStore["x"] = Integer(5)
       /\ status # "running" => status = "done" /\ result = Integer(5)
  /\ prog = ImportBrokenProgram /\ pc >= 2 =>
       /\ RootStore = [y |-> Integer(2)]
       /\ status # "running" =>
            /\ status = "done"
            /\ pc = 2
            /\ result = newError("no prefix parse function for } found"
                                 \o "expected next token to be =, got EOF instead")
  /\ prog = ImportInCallProgram /\ pc >= 2 =>
       /\ DOMAIN RootStore = {"h"}
       /\ pc = 3 /\ status = "running" => result = Integer(1)
       /\ status # "running" => status = "done" /\ result = newError("identifier not found: m")
  /\ \A probe \in {Id("m"), Id("k")} :
       prog = ImportNestedProgram(probe) /\ status # "running" =>
         /\ DOMAIN RootStore = {"y", "outer"}
         /\ DOMAIN ModuleStore("outer") = {"m", "k"}
         /\ status = "done"
         /\ result = newError("identifier not found: " \o probe.value)

\* An importer that bound y has imported m under an alias and has called the
\* module's f, which reads y.
C17_Witness ==
  /\ prog = ImportProgram(<<"n">>, Dot(Id("n"), Call(Id("f"), <<>>)))
  /\ status = "done"
  /\ RootStore["n"].t = "MODULE"
  /\ RootStore["y"] = Integer(2)
  /\ st.out = <<"loaded">>
  /\ result = newError("identifier not found: y")

\* The source text main was started on.
Source == parser.l.input

\* The node an operand lexeme parses to.
Operand(ch) == IF ch \in Digits THEN IntegerLiteral(DigitValue[ch]) ELSE Identifier(ch)

\* The level the claim gives a binary operator: EQUALS, LESSGREATER, SUM,
\* PRODUCT, in rising order.
ClaimedLevel(op) ==
  CASE op \in {"==", "!="} -> "1 EQUALS"
    [] op \in {"<", ">"} -> "2 LESSGREATER"
    [] op \in {"+", "-"} -> "3 SUM"
    [] op \in {"*", "/"} -> "4 PRODUCT"
LevelOrder == <<"1 EQUALS", "2 LESSGREATER", "3 SUM", "4 PRODUCT">>
Binds(op1, op2) ==
  \E i, j \in 1..Len(LevelOrder) :
    LevelOrder[i] = ClaimedLevel(op1) /\ LevelOrder[j] = ClaimedLevel(op2) /\ i >= j

\* C18: the source 'a op1 b op2 c' over the binary operators == != < > + - *
\* / parses, without an error, to one expression statement: (a op1 b) op2 c
\* when op1 is of the same level as op2 or of a higher one (operators of one
\* level group to the left), a op1 (b op2 c) when op2 is of the higher level.
C18_PrecedenceClimbing ==
  \A op1 \in BinaryOperators, op2 \in BinaryOperators, operands \in OperandTriples :
    Source = PrecedenceSource(op1, op2, operands) /\ status # "parsing" =>
      /\ parser.errors = <<>>
      /\ status # "rejected"
      /\ LET a == Operand(operands[1])
             b == Operand(operands[2])
             c == Operand(operands[3])
         IN prog = << ExpressionStatement(
                        IF Binds(op1, op2)
                        THEN InfixExpression(op2, InfixExpression(op1, a, b), c)
                        ELSE InfixExpression(op1, a, InfixExpression(op2, b, c))) >>

\* 'a - b - c', 'a + b * c' and 'a * b == c' have been parsed.
C18_Witness ==
  /\ status = "running"
  /\ \/ /\ Source = PrecedenceSource("-", "-", <<"a", "b", "c">>)
        /\ prog = <<ExpressionStatement(InfixExpression("-", InfixExpression("-", Identifier("a"), Identifier("b")), Identifier("c")))>>
     \/ /\ Source = PrecedenceSource("+", "*", <<"1", "2", "3">>)
        /\ prog = <<ExpressionStatement(InfixExpression("+", IntegerLiteral(1), InfixExpression("*", IntegerLiteral(2), IntegerLiteral(3))))>>

\* C19 (as stated): 'a <= b' and 'a >= b', lexed as the single tokens <= and
\* >=, parse without an error into one infix expression, and evaluating it on
\* integers yields the Bool of the comparison.
C19_RelationalOperators ==
  \A op \in {"<=", ">="}, a \in RelationalDigits, b \in RelationalDigits :
    Source \in {RelationalSource(op, a, b), RelationalDenseSource(op, a, b)} /\ status # "parsing" =>
      /\ parser.errors = <<>>
      /\ status # "rejected"
      /\ prog = <<ExpressionStatement(InfixExpression(op, Operand(a), Operand(b)))>>
      /\ status = "done" =>
           result = nativeBoolToBooleanObject(IF op = "<=" THEN DigitValue[a] <= DigitValue[b]
                                              ELSE DigitValue[a] >= DigitValue[b])

\* C20 (as stated): ParseProgram terminates on every source text, cut off
\* ones included: no loop of the parser begins an iteration without a token
\* read since the iteration before, and every parse function that gave up
\* left a message in Errors().
C20_TerminatesRecordingFailures ==
  /\ ~parser.stalled
  /\ ~parser.silent

\* The part of C20 about termination alone; the one source of the model
\* whose failure leaves no message is the import of a path that is not a
\* string literal.
ParserProgress ==
  /\ ~parser.stalled
  /\ parser.silent => Source = ImportSumSource

\* Each iteration of the statement loop moves past at least one token.
StatementLoopConsumes == [][ParseStatement => parser'.read > parser.read]_vars

\* Some store of the state binds name.
Bound(name) == \E s \in 1..Len(st.stores) : name \in DOMAIN st.stores[s]

\* C21: parsing completes before evaluation and gates it.  While main parses
\* and after it has rejected a source for its parser errors, nothing has been
\* evaluated: no store is written and nothing is printed.  Evaluation runs
\* only with the parser at EOF, on the program ParseProgram returned, with no
\* error recorded.  An import of a file with parser errors yields the Error
\* that joins them, evaluates no statement of the file (the file's output and
\* its binding z do not appear) and binds no Module.
C21_ParsingGatesEvaluation ==
  /\ status \in {"parsing", "rejected"} => st = InitState /\ pc = 1 /\ result = NIL
  /\ status = "rejected" <=> (parser.errors # <<>> /\ ~(status = "parsing"))
  /\ status \in {"running", "done"} /\ Source # <<>> =>
       curTokenIs(parser, "EOF") /\ prog = program /\ parser.errors = <<>>
  /\ Source = ImportBrokenSource /\ status \in {"running", "done"} /\ pc >= 2 =>
       /\ st.out = <<>>
       /\ ~Bound("z")
       /\ ~Bound("broken")
       /\ \A s \in 1..Len(st.stores) : \A name \in DOMAIN st.stores[s] :
            st.stores[s][name].t # "MODULE"
       /\ status = "done" =>
            /\ pc = 2
            /\ result = newError("no prefix parse function for } found"
                                 \o "expected next token to be =, got EOF instead")

\* The statement loop has built statements (an import among them) and the
\* parser has recorded an error for the text behind them: main has rejected
\* the source.
C21_Witness ==
  /\ status = "rejected"
  /\ Len(program) >= 2
  /\ program[1] = ExpressionStatement(ImportStatement("m", <<"n">>))
  /\ parser.errors # <<>>

\* The import of the file that does not parse has yielded its Error.
ImportBrokenDone ==
  Source = ImportBrokenSource /\ status = "done" /\ isError(result) /\ RootStore = [y |-> Integer(2)]

(***************************************************************************)
(* The lexer's claims.                                                     *)
(***************************************************************************)
\* The lexer has consumed the whole input: its current position is behind
\* the last byte.
Consumed == lexer.position >= Len(lexer.input)

\* C22: once the lexer has consumed the whole input, every further call of
\* NextToken returns an EOF token with the empty literal, however many
\* calls are made, and no call reads a byte or a slice outside the input.
C22_EOFForever ==
  [][CallNextToken =>
       /\ lexer'.ch # OutOfRange
       /\ tok'.literal # OutOfRange
       /\ OutOfRange \notin { tok'.literal[i] : i \in DOMAIN tok'.literal }
       /\ Consumed => (tok'.type = "EOF" /\ tok'.literal = <<>>)]_vars

\* NextToken has been called three times behind the end of an input that
\* has tokens in it.
C22_Witness ==
  /\ status = "lexing"
  /\ Len(lexer.input) > 1
  /\ lexer.input[1] = "a"
  /\ lexer.position >= Len(lexer.input) + 3
  /\ tok.type = "EOF"

\* The calls of NextToken from l to the end of the input: the token each
\* returns, the offset of its first byte and the lexer after it.
RECURSIVE Calls(_)
Calls(l) ==
  IF l.position >= Len(l.input) THEN <<>>
  ELSE <<[tok |-> NextToken(l).tok, start |-> skipWhitespace(l).position, after |-> NextToken(l).l]>>
         \o Calls(NextToken(l).l)

\* The calls made so far on the lexer, those that returned EOF left out.
Returned ==
  SelectSeq(Calls(NewLexer(lexer.input)),
            LAMBDA c : c.after.readPosition <= lexer.readPosition /\ c.tok.type # "EOF")

\* The line of the byte at offset start: the line feeds before it.
LineOf(input, start) == Cardinality({ i \in 1..start : input[i] = "\n" })

\* The column of the byte at offset start, counted from 0: the bytes
\* between it and the beginning of its line.
ColumnOf(input, start) ==
  LET feeds == { i \in 1..start : input[i] = "\n" }
  IN start - (IF feeds = {} THEN 0 ELSE CHOOSE i \in feeds : \A j \in feeds : j <= i)

\* C23: every token NextToken returns carries the line and the column of
\* its first character, the columns of all lines being counted from the
\* same number (0 or 1).
C23_TokenPositions ==
  \E base \in {0, 1} :
    \A i \in 1..Len(Returned) :
      /\ Returned[i].tok.lineNo = LineOf(lexer.input, Returned[i].start)
      /\ Returned[i].tok.charNo = ColumnOf(lexer.input, Returned[i].start) + base

\* C24: hasattr(inst, name) on an Instance and a String is a Bool, true
\* exactly when the instance's own environment binds name (the scopes
\* around the class not counting), never an Error, and the instance is as
\* it was.
C24_HasattrBool ==
  \A name \in HasattrNames :
    prog = HasattrProgram(name) /\ status # "running" =>
      /\ status = "done"
      /\ result = nativeBoolToBooleanObject(name = "m")
      /\ InstanceStore = [m |-> Integer(1)]

\* C25: a call of a user function, or of a method through an instance,
\* with more or fewer arguments than parameters is an Error value: the
\* interpreter does not crash and the body does not run.
C25_ArityError ==
  \A args \in ArityArgs \ {<<Num(1)>>} :
    (prog = ArityProgram(args) \/ prog = ArityMethodProgram(args)) /\ status # "running" =>
      /\ status = "done"
      /\ isError(result)
      /\ st.out = <<>>

\* The instance the root binds to name.
InstanceOf(name) == st.stores[root][name]

\* C26: all instances of a class share the class's environment: once
\* `let a.p = 5` or setattr(a, "p", 5) is done on the instance a, p reads
\* as 5 through a, through the instance b created before the write and
\* through the instance c created after it.
C26_InstancesShareClassEnv ==
  \A declared \in Bools, write \in ShareWrites, reader \in ShareReaders :
    prog = ShareProgram(declared, write, reader) /\ status # "running" =>
      /\ status = "done"
      /\ (declared \/ write = "setattr") => pc = Len(prog) + 1
      /\ pc = Len(prog) + 1 =>
           /\ result = Integer(5)
           /\ InstanceOf("a").env = InstanceOf("A").env
           /\ InstanceOf("b").env = InstanceOf("A").env
           /\ InstanceOf("c").env = InstanceOf("A").env

\* setattr on a has made a property the class did not declare, and it has
\* been read through b.
C26_Witness ==
  /\ prog = ShareProgram(FALSE, "setattr", "b")
  /\ status = "done"
  /\ pc = Len(prog) + 1
  /\ result = Integer(5)

\* C27: a while loop whose body yields an Error or a return ends at once
\* and yields that value: `while (true) { return 1 }` in a function makes
\* the call return 1, and a body that fails is run once, the loop yielding
\* its Error.
C27_WhileStopsOnErrorOrReturn ==
  /\ prog = WhileReturnProgram /\ status # "running" => status = "done" /\ result = Integer(1)
  /\ prog = WhileErrorProgram /\ status # "running" =>
       /\ status = "done"
       /\ result = newError("identifier not found: zz")
       /\ st.out = <<"body">>

\* C28: after `class C(P) {}` every member of P is bound in C's own store,
\* whatever the scope around C binds, so that c.m on an instance of C
\* yields P's m also when that scope binds an m of its own.
C28_InheritedMembersBound ==
  \A shadowed \in Bools :
    prog = ShadowedInheritProgram(shadowed) /\ status # "running" =>
      /\ status = "done"
      /\ pc = Len(prog) + 1
      /\ result = Integer(1)
      /\ {"m", "n"} \subseteq DOMAIN ClassStore("C")

\* The value is a ReturnValue or holds one among its elements or pairs.
RECURSIVE HoldsMarker(_)
HoldsMarker(v) ==
  CASE v.t = "RETURN_VALUE" -> TRUE
    [] v.t = "ARRAY" -> \E i \in DOMAIN v.elems : HoldsMarker(v.elems[i])
    [] v.t = "HASH" -> \E key \in DOMAIN v.pairs : HoldsMarker(v.pairs[key].key) \/ HoldsMarker(v.pairs[key].value)
    [] OTHER -> FALSE

\* C29: no binding of any environment (the parameters of calls among
\* them), no array element and no hash entry holds a ReturnValue, and the
\* result of the program is not one.
C29_MarkerNeverStored ==
  /\ \A s \in DOMAIN st.stores : \A name \in DOMAIN st.stores[s] : ~HoldsMarker(st.stores[s][name])
  /\ status = "done" => ~HoldsMarker(result)

\* C30: every evaluated expression yields a value, at least Null: no
\* binding is Go's nil, and a call or an if whose block is empty or ends
\* with a let yields Null, on which operators and built-ins do not crash.
C30_NoNilValues ==
  /\ \A s \in DOMAIN st.stores : \A name \in DOMAIN st.stores[s] : ~isNil(st.stores[s][name])
  /\ \A block \in NilBlocks :
       /\ prog = NilCallProgram(block) /\ status # "running" =>
            status = "done" /\ result = newError("type mismatch: NULL + INTEGER")
       /\ prog = NilIfProgram(block) /\ status # "running" =>
            status = "done" /\ st.out = <<"null">>

====
